---- MODULE Spec2Model ----
(***************************************************************************)
(* Model of the MAS-004 RPI data bridge: the durable inbox (inbox.py), the *)
(* router's tick_once (router.py), the outbox and the sender loop          *)
(* (outbox.py, service.py), the peer watchdog (watchdog.py), the backoff    *)
(* function (service.py), and the parameter store with the two request     *)
(* handlers that use it (params.py, router.py, device_bridge.py).          *)
(*                                                                         *)
(* Time is counted in ticks of 0.5 s, the smallest interval the code uses  *)
(* (watchdog.py line 55).  The store (db.py) is SQLite in autocommit mode: *)
(* every statement is one atomic step, and the only multi-statement        *)
(* transaction is the BEGIN IMMEDIATE of claim_next_pending, which holds   *)
(* the write lock from BEGIN to COMMIT.  A writer that finds the lock      *)
(* taken waits (busy_timeout); the model lets it wait until the lock is    *)
(* free.                                                                   *)
(***************************************************************************)
EXTENDS Integers, Sequences, FiniteSets, TLC

\* ---------------------------------------------------------------- bounds
NumKeys == 2          \* idempotency keys the peer uses
MaxTime == 2          \* the clock runs from 0 to MaxTime
MaxJobs == 2          \* rows the outbox table holds at a time
MaxCrash == 1         \* process crashes in one behaviour
MaxSendTime == 3      \* the clock of the sender's specifications
MaxRetry == 2         \* failed sends of one job
MaxFail == 2          \* consecutive failed probes the watchdog counts
\* The configuration the sender runs with (config.py, in ticks).
RetryBase == 1        \* retry_base_s
RetryCap == 3         \* retry_cap_s
WdInterval == 2       \* watchdog_interval_s
WdDownAfter == 2      \* watchdog_down_after
\* min(interval_s, 0.5): the recheck interval while down, 0.5 s = 1 tick
QuickRecheck == 1
MaxN == 12            \* retry counts the backoff function is evaluated at
MaxBase == 3          \* retry bases the backoff function is evaluated at
MaxVal == 3           \* numeric values written: 0..MaxVal

Keys == 1..NumKeys
Workers == {"w1", "w2"}       \* concurrent callers of the inbox
Routers == {"w1"}             \* the caller that is the router loop
NoWorker == "none"
\* What a stored body is to _extract_msg_line and _parse_line.
Bodies == {"none", "nomsg", "garbage", "request"}
Slots == 1..MaxJobs
NoJob == [created |-> -1, rc |-> -1, nts |-> -1, corr |-> -1,
          method |-> "", url |-> "", body |-> [msg |-> "", source |-> ""],
          idem |-> "", ikey |-> ""]
\* The request client.request makes for a job: job.method, job.url, the
\* headers of headers_json (X-Correlation-Id, X-Idempotency-Key) and the body.
RequestOf(job) == [method |-> job.method, url |-> job.url, corr |-> job.corr,
                   idem |-> job.idem, body |-> job.body]
\* No job in the sender's hands.
NoFetch == [slot |-> 0, rc |-> 0, req |-> RequestOf(NoJob)]
\* A header the dict does not have; the argument idempotency_key=None.
NoHeader == "<absent>"
NoKey == "<none>"
\* <peer_base_url>/api/inbox
PeerInboxUrl == "peer/api/inbox"
\* The body of a reply: {"msg": <reply line>, "source": "raspi"}.
ReplyBody == [msg |-> "reply", source |-> "raspi"]
\* What uuid.uuid4() returns.
Uuid == "uuid"

VARIABLES
    now,        \* time.time(), in ticks
    inbox,      \* the inbox table: a sequence of rows, row i has id i
    wlock,      \* the worker whose BEGIN IMMEDIATE holds the write lock
    wpc,        \* wpc[w]: where worker w is in its call
    wsel,       \* wsel[w]: the row id the SELECT of w's claim fetched (0: none)
    holders,    \* holders[i]: the callers that were handed row i while it is processing
    op,         \* the last completed inbox call: [name, arg, ret]
    wmsg,       \* wmsg[w]: the id of the message router w is handling (0: none)
    rexc,       \* rexc[w]: an exception is propagating through tick_once's finally
    rres,       \* how the last tick_once that ended did end: [w, res]
    crashes,    \* process crashes so far
    outbox,     \* the outbox table: slot -> job, or NoJob
    peer,       \* "ok": the peer answers probes and every request with 2xx; "bad": it need not
    wd,         \* the Watchdog object: [fail, up, next]
    spc,        \* where the sender loop is
    sjob,       \* the job next_due returned: [slot, rc, req] (slot 0: none)
    sout,       \* the outcome of the request: a status code, 0 for no response
    swake,      \* the end of the sender's sleep
    bIn,        \* the arguments backoff_s is called with: [n, base, cap]
    bOut,       \* what backoff_s returned (-1: not called yet)
    plog,       \* the results of the watchdog's last probes, oldest first
    wret,       \* the last call of tick: [at, probed, up] (at -1: none yet)
    ptab,       \* the tables params and param_values: pkey -> row
    pcall,      \* the last parameter request and its reply
    hres,       \* the answer to the last POST /api/inbox
    zc,         \* the last call of the ZBC codec: its arguments, packet and result
    zlock,      \* ZipherClient._lock: the caller holding it
    ztrx,       \* ZipherClient._trx
    zpc,        \* zpc[c]: where caller c is in transact
    zmy,        \* zmy[c]: the transaction id of caller c's packet
    zio,        \* zio[c]: the packets caller c's transact has read and the ACKs it has sent
    scfg,       \* the configuration: in the file, in the sender thread, and as last used
    adm,        \* the ids of the messages GET /api/inbox/next has returned
    pth         \* pth[t]: where thread t is in its call of the parameter store

inboxVars == <<inbox, wlock, wpc, wsel, holders, op>>
routerVars == <<wmsg, rexc, rres>>
senderVars == <<peer, wd, spc, sjob, sout, swake>>
backoffVars == <<bIn, bOut>>
wdVars == <<plog, wret>>
paramVars == <<ptab, pcall>>
intakeVars == <<hres>>
codecVars == <<zc>>
clientVars == <<zlock, ztrx, zpc, zmy, zio>>
procVars == <<scfg, adm, pth>>
extVars == <<intakeVars, codecVars, clientVars, procVars>>
auxVars == <<wdVars, paramVars, extVars>>
vars == <<now, inbox, wlock, wpc, wsel, holders, op, wmsg, rexc, rres, crashes, outbox,
          peer, wd, spc, sjob, sout, swake, bIn, bOut, plog, wret, ptab, pcall, hres,
          zc, zlock, ztrx, zpc, zmy, zio, scfg, adm, pth>>

\* ------------------------------------------------- params.py: the tables
\* A value column (TEXT): a number, a text that float() rejects, or NULL.
Num(n) == [k |-> "num", n |-> n]
Text == [k |-> "text", n |-> 0]
None == [k |-> "none", n |-> 0]
\* A bound column (REAL): present with value v, or NULL.
Bound(v) == [has |-> TRUE, v |-> v]
NoBound == [has |-> FALSE, v |-> 0]

\* READONLY_TYPES of router.py and device_bridge.py, and a parameter type
\* outside it.
READONLY_TYPES == {"TTE", "TTW", "LSE", "LSW", "MAE", "MAW"}
PTypes == {"TTP"} \cup READONLY_TYPES
\* The pkeys requests name: pid 1 of every type has a row in params, pid 9
\* has none.
PKeys == (PTypes \X {1}) \cup {<<"TTP", 9>>, <<"TTE", 9>>}

\* A pkey without a row in params.
NoParam == [known |-> FALSE, min |-> NoBound, max |-> NoBound, rw |-> "", def |-> None, val |-> None]

\* The metadata a parameter can have: each bound present or not, writable or
\* rw = R, with or without a default.
MetaShapes ==
    [known : {TRUE}, val : {None},
     min : {NoBound, Bound(1)}, max : {NoBound, Bound(MaxVal - 1)},
     rw : {"R", "R/W"}, def : {None, Num(MaxVal - 1)}]

\* The tables before any import: no rows.
EmptyTable == <<>>

\* The row of pkey pk in tables t: get_meta and get_value in one.
RowOf(t, pk) == IF pk \in DOMAIN t THEN t[pk] ELSE NoParam

\* The imported tables, TTP1 having metadata m: the parameters of the
\* read-only types have both bounds and rw = R, but for TTE1, which only its
\* type protects.  No value is stored yet.
ParamTableOf(m) ==
    [pk \in PTypes \X {1} |->
        IF pk[1] = "TTP" THEN m
        ELSE [known |-> TRUE, val |-> None, min |-> Bound(1), max |-> Bound(MaxVal - 1),
              rw  |-> IF pk[1] = "TTE" THEN "R/W" ELSE "R",
              def |-> IF pk[1] = "LSE" THEN None ELSE Num(MaxVal - 1)]]

\* update_meta called with all of default_v, min_v, max_v, rw left None.
NoArgs == [def |-> None, min |-> NoBound, max |-> NoBound, rw |-> "<none>"]

\* No request yet.
NoCall == [by |-> "none", device |-> "", pkey |-> <<"", 0>>, op |-> "", value |-> None,
           resp |-> [k |-> "none", code |-> "", v |-> None], sim |-> TRUE, dev |-> FALSE,
           args |-> NoArgs, end |-> "none"]

\* No POST /api/inbox answered yet.
NoAnswer == [n |-> 0, secret |-> "", header |-> "", key |-> 0, status |-> 0, stored |-> FALSE]

\* The callers of one ZipherClient.
Callers == {"c1", "c2"}
NoCaller == "none"

\* What parse_zbc_packet returns: a ZbcPacket, or the ValueError it raises.
ZbcPacket(flags, size, txn, seq, payload, has_cs) ==
    [err |-> "", flags |-> flags, size |-> size, transaction_id |-> txn, sequence_id |-> seq,
     payload |-> payload, has_checksum |-> has_cs]
ValueError(msg) ==
    [err |-> msg, flags |-> 0, size |-> 0, transaction_id |-> 0, sequence_id |-> 0,
     payload |-> <<>>, has_checksum |-> FALSE]

\* No codec call yet.
NoCodecCall ==
    [fn |-> "none", flags |-> 0, trx |-> 0, seq |-> 0, data |-> <<>>, pkt |-> <<>>, pos |-> 0,
     crc |-> -1, res |-> ValueError("none")]

\* A transact that has read and sent nothing and has not ended.
NoExchange == [pkts |-> <<>>, acks |-> <<>>, ret |-> "none"]

\* The ZBC client between two transactions, its counter at trx.
ClientIdle(trx) ==
    /\ zlock = NoCaller
    /\ ztrx = trx
    /\ zpc = [c \in Callers |-> "idle"]
    /\ zmy = [c \in Callers |-> 0]
    /\ zio = [c \in Callers |-> NoExchange]

\* Settings: the fields the sender thread takes from it, each at its default
\* (1) or edited (2).
SettingsValues == [retry_base_s : {1, 2}, watchdog_interval_s : {1, 2}, http_timeout_s : {1, 2}]

\* No Settings object: nothing loaded, nothing used yet.
NoSettings == [retry_base_s |-> 0, watchdog_interval_s |-> 0, http_timeout_s |-> 0]

\* The threads that call the parameter store, and a thread outside a call.
Threads == {"t1", "t2"}
NoThreadCall == [pc |-> "idle", call |-> "none", value |-> None, row |-> NoParam, ret |-> ""]

\* The process has started and the sender thread has not loaded the file.
ProcInit ==
    /\ scfg = [file |-> [retry_base_s |-> 1, watchdog_interval_s |-> 1, http_timeout_s |-> 1],
               loaded |-> NoSettings, used |-> NoSettings, pc |-> "load", iter |-> 0]
    /\ adm = {}
    /\ pth = [t \in Threads |-> NoThreadCall]

\* The intake endpoint and the ZBC client after construction.
ServerInit ==
    /\ hres = NoAnswer
    /\ ClientIdle(0)
    /\ ProcInit

\* With no codec call made.
ExtInit == ServerInit /\ zc = NoCodecCall

\* After construction: empty tables, idle threads, the watchdog assuming up.
CoreInit ==
    /\ now = 0
    /\ inbox = <<>>
    /\ wlock = NoWorker
    /\ wpc = [w \in Workers |-> "idle"]
    /\ wsel = [w \in Workers |-> 0]
    /\ holders = <<>>
    /\ op = [name |-> "init", arg |-> 0, ret |-> 0]
    /\ wmsg = [w \in Workers |-> 0]
    /\ rexc = [w \in Workers |-> FALSE]
    /\ rres = [w |-> NoWorker, res |-> "none"]
    /\ crashes = 0
    /\ outbox = [s \in Slots |-> NoJob]
    /\ peer = "ok"
    /\ wd = [fail |-> 0, up |-> TRUE, next |-> 0]
    /\ spc = "top"
    /\ sjob = NoFetch
    /\ sout = 0
    /\ swake = 0
    /\ plog = <<>>
    /\ wret = [at |-> -1, probed |-> FALSE, up |-> TRUE]
    /\ ptab = EmptyTable
    /\ pcall = NoCall
    /\ bIn = [n |-> 0, base |-> 1, cap |-> 1]
    /\ bOut = -1

Init == CoreInit /\ ExtInit

\* ------------------------------------------------------------ db.py, inbox
Ids == 1..Len(inbox)

RowsWithKey(k) == {i \in Ids : inbox[i].key = k}

\* SELECT ... WHERE state='pending'
PendingIds == {i \in Ids : inbox[i].state = "pending"}

\* Inbox.count_pending
CountPending == Cardinality(PendingIds)

\* ORDER BY received_ts DESC in place of ASC
NewestPending == {i \in PendingIds : \A j \in PendingIds : inbox[i].ts >= inbox[j].ts}

\* SELECT ... WHERE state='pending' ORDER BY received_ts ASC LIMIT 1: the rows
\* the statement may return (rows of equal received_ts are in no fixed order).
OldestPending == {i \in PendingIds : \A j \in PendingIds : inbox[i].ts <= inbox[j].ts}

\* UPDATE inbox SET state=? without its WHERE id=?
SetStateAll(i, s) == [j \in Ids |-> [inbox[j] EXCEPT !.state = s]]

\* UPDATE inbox SET state=? WHERE id=?
SetState(i, s) == [inbox EXCEPT ![i].state = s]

\* time passes, up to limit
Advance(limit) ==
    /\ now < limit
    /\ now' = now + 1
    /\ UNCHANGED <<inboxVars, routerVars, crashes, outbox, senderVars, backoffVars, auxVars>>

Tick == Advance(MaxTime)

\* store on a table without the UNIQUE index: every call inserts
StoreNoDedupe(k, b) ==
    /\ wlock = NoWorker
    /\ Len(inbox) < NumKeys + 1
    /\ inbox' = Append(inbox, [key |-> k, ts |-> now, body |-> b, state |-> "pending"])
    /\ holders' = Append(holders, {})
    /\ op' = [name |-> "store", arg |-> k, ret |-> 1]
    /\ UNCHANGED <<now, wlock, wpc, wsel, routerVars, crashes, outbox, senderVars, backoffVars, auxVars>>

\* Inbox.store: INSERT, refused by the UNIQUE index idx_inbox_dedupe on a
\* duplicate idempotency key; the exception is swallowed and False returned.
Store(k, b) ==
    /\ wlock = NoWorker
    /\ IF RowsWithKey(k) = {}
       THEN /\ inbox' = Append(inbox, [key |-> k, ts |-> now, body |-> b, state |-> "pending"])
            /\ holders' = Append(holders, {})
            /\ op' = [name |-> "store", arg |-> k, ret |-> 1]
       ELSE /\ UNCHANGED <<inbox, holders>>
            /\ op' = [name |-> "store", arg |-> k, ret |-> 0]
    /\ UNCHANGED <<now, wlock, wpc, wsel, routerVars, crashes, outbox, senderVars, backoffVars, auxVars>>

\* a plain BEGIN: deferred, no lock is taken before the SELECT
BeginDeferred(w) == wlock' = wlock

\* claim_next_pending, BEGIN IMMEDIATE: take the write lock.
BeginImmediate(w) ==
    /\ wlock = NoWorker
    /\ wlock' = w

ClaimBegin(w) ==
    /\ wpc[w] = "idle"
    /\ BeginImmediate(w)
    /\ wpc' = [wpc EXCEPT ![w] = "begun"]
    /\ UNCHANGED <<now, inbox, wsel, holders, op, routerVars, crashes, outbox, senderVars, backoffVars, auxVars>>

\* claim_next_pending, the SELECT
ClaimSelect(w) ==
    /\ wpc[w] = "begun"
    /\ IF PendingIds = {}
       THEN wsel' = [wsel EXCEPT ![w] = 0]
       ELSE \E i \in OldestPending : wsel' = [wsel EXCEPT ![w] = i]
    /\ wpc' = [wpc EXCEPT ![w] = "selected"]
    /\ UNCHANGED <<now, inbox, wlock, holders, op, routerVars, crashes, outbox, senderVars, backoffVars, auxVars>>

\* claim_next_pending, the rest: no row -> COMMIT, return None; else
\* UPDATE ... SET state='processing' WHERE id=? AND state='pending', COMMIT,
\* return the row that was selected.
ClaimCommit(w, next) ==
    /\ wpc[w] = "selected"
    /\ wlock' = NoWorker
    /\ IF wsel[w] = 0
       THEN /\ UNCHANGED <<inbox, holders>>
            /\ wpc' = [wpc EXCEPT ![w] = "idle"]
       ELSE /\ inbox' = IF inbox[wsel[w]].state = "pending"
                        THEN SetState(wsel[w], "processing")
                        ELSE inbox
            /\ holders' = [holders EXCEPT ![wsel[w]] = @ \cup {w}]
            /\ wpc' = [wpc EXCEPT ![w] = next]
    /\ wsel' = [wsel EXCEPT ![w] = 0]
    /\ wmsg' = [wmsg EXCEPT ![w] = IF next = "idle" THEN 0 ELSE wsel[w]]
    /\ rres' = IF next # "idle" /\ wsel[w] = 0 THEN [w |-> w, res |-> "False"] ELSE rres
    /\ op' = [name |-> "claim", arg |-> 0, ret |-> wsel[w]]
    /\ UNCHANGED <<now, rexc, crashes, outbox, senderVars, backoffVars, auxVars>>

\* Inbox.ack: UPDATE inbox SET state='done' WHERE id=?
Ack(i) ==
    /\ wlock = NoWorker
    /\ inbox' = IF i \in Ids THEN SetState(i, "done") ELSE inbox
    /\ holders' = IF i \in Ids THEN [holders EXCEPT ![i] = {}] ELSE holders
    /\ op' = [name |-> "ack", arg |-> i, ret |-> 0]
    /\ UNCHANGED <<now, wlock, wpc, wsel, routerVars, crashes, outbox, senderVars, backoffVars, auxVars>>

\* Inbox.nack: UPDATE inbox SET state='pending' WHERE id=?
Nack(i) ==
    /\ wlock = NoWorker
    /\ inbox' = IF i \in Ids THEN SetState(i, "pending") ELSE inbox
    /\ holders' = IF i \in Ids THEN [holders EXCEPT ![i] = {}] ELSE holders
    /\ op' = [name |-> "nack", arg |-> i, ret |-> 0]
    /\ UNCHANGED <<now, wlock, wpc, wsel, routerVars, crashes, outbox, senderVars, backoffVars, auxVars>>

\* --------------------------------------------------------------- outbox.py
FreeSlots == {s \in Slots : outbox[s] = NoJob}

\* The slot an INSERT takes: the first free one.
NewSlot == CHOOSE s \in FreeSlots : \A t \in FreeSlots : s <= t

\* Outbox.enqueue without headers.setdefault("X-Idempotency-Key", ...)
EnqueueRowNoDefault(s, method, url, headers, body, key) ==
    [outbox EXCEPT ![s] =
        [created |-> now, rc |-> 0, nts |-> 0,
         method |-> method, url |-> url, body |-> body,
         corr |-> headers.corr, idem |-> headers.idem,
         ikey |-> IF key = NoKey THEN Uuid ELSE key]]

\* Outbox.enqueue(method, url, headers, body, idempotency_key) into slot s.
\* headers is the caller's dict, given by the values of the two headers the
\* model follows: corr (X-Correlation-Id, 0: absent) and idem
\* (X-Idempotency-Key, NoHeader: absent).  A missing key is a fresh uuid;
\* setdefault adds X-Idempotency-Key unless the caller's headers have it; the
\* INSERT leaves retry_count and next_attempt_ts to the schema's DEFAULT 0.
EnqueueRow(s, method, url, headers, body, key) ==
    LET ikey == IF key = NoKey THEN Uuid ELSE key IN
    [outbox EXCEPT ![s] =
        [created |-> now, rc |-> 0, nts |-> 0,
         method |-> method, url |-> url, body |-> body,
         corr |-> headers.corr,
         idem |-> IF headers.idem # NoHeader THEN headers.idem ELSE ikey,
         ikey |-> ikey]]

\* _enqueue_to_mikrotom without the X-Correlation-Id header
EnqueueNoCorrelation(s, corr) ==
    EnqueueRow(s, "POST", PeerInboxUrl, [corr |-> 0, idem |-> NoHeader], ReplyBody, NoKey)

\* Router._enqueue_to_mikrotom(line, correlation): a POST of the reply to the
\* peer's inbox, with X-Correlation-Id when correlation is given (corr # 0).
Enqueue(s, corr) ==
    EnqueueRow(s, "POST", PeerInboxUrl, [corr |-> corr, idem |-> NoHeader], ReplyBody, NoKey)

\* --------------------------------------------------------------- router.py
\* _extract_msg_line: None for a missing body and for a JSON object without a
\* non-empty msg / line / text / cmd string, else the stripped line.
ExtractMsgLine(b) == IF b \in {"none", "nomsg"} THEN "noline" ELSE b

\* _parse_line: None unless the line matches the parameter grammar.
ParseLine(line) == IF line = "request" THEN "parsed" ELSE "unparsed"

\* tick_once, line 137-138: extract the line of the claimed message.
TickExtract(w) ==
    /\ wpc[w] = "claimed"
    /\ wpc' = [wpc EXCEPT ![w] =
                 IF ExtractMsgLine(inbox[wmsg[w]].body) = "noline" THEN "noline" ELSE "handle"]
    /\ UNCHANGED <<now, inbox, wlock, wsel, holders, op, routerVars, crashes, outbox, senderVars, backoffVars, auxVars>>

\* How a call of tick_once ends: back to the caller, nothing kept.
EndTick(w, res) ==
    /\ wpc' = [wpc EXCEPT ![w] = "idle"]
    /\ wmsg' = [wmsg EXCEPT ![w] = 0]
    /\ rexc' = [rexc EXCEPT ![w] = FALSE]
    /\ rres' = [w |-> w, res |-> res]

\* tick_once, line 139: the log write of the no-line branch, outside the try.
\* ok = FALSE: LogStore.log raises (its INSERT fails) and the exception leaves
\* tick_once.
TickNoLineLog(w, ok) ==
    /\ wpc[w] = "noline"
    /\ IF ok
       THEN /\ wpc' = [wpc EXCEPT ![w] = "noline_ack"]
            /\ UNCHANGED routerVars
       ELSE EndTick(w, "raised_log")
    /\ UNCHANGED <<now, inbox, wlock, wsel, holders, op, crashes, outbox, senderVars, backoffVars, auxVars>>

\* The UPDATE of Inbox.ack as tick_once runs it; ok = FALSE: the write raises.
RouterAck(w, ok) ==
    /\ wlock = NoWorker
    /\ IF ok
       THEN /\ inbox' = SetState(wmsg[w], "done")
            /\ holders' = [holders EXCEPT ![wmsg[w]] = {}]
            /\ op' = [name |-> "ack", arg |-> wmsg[w], ret |-> 0]
       ELSE UNCHANGED <<inbox, holders, op>>

\* tick_once, line 140-141: ack and return True.
TickNoLineAck(w, ok) ==
    /\ wpc[w] = "noline_ack"
    /\ RouterAck(w, ok)
    /\ EndTick(w, IF ok THEN "True" ELSE "raised_ack")
    /\ UNCHANGED <<now, wlock, wsel, crashes, outbox, senderVars, backoffVars, auxVars>>

\* tick_once, line 143-144: handle_mikrotom_line inside the try.  It returns
\* None for a line that does not parse; otherwise it logs, reads or writes the
\* parameter store and, as its last statement, enqueues the reply.  ok = FALSE:
\* one of its store operations raises, before any reply is enqueued.
TickHandle(w, ok) ==
    /\ wpc[w] = "handle"
    /\ LET line == ExtractMsgLine(inbox[wmsg[w]].body) IN
       IF ParseLine(line) = "unparsed"
       THEN /\ wpc' = [wpc EXCEPT ![w] = "finally"]
            /\ UNCHANGED outbox
       ELSE IF ok
       THEN /\ FreeSlots # {}
            /\ outbox' = Enqueue(NewSlot, inbox[wmsg[w]].key)
            /\ wpc' = [wpc EXCEPT ![w] = "finally"]
       ELSE /\ wpc' = [wpc EXCEPT ![w] = "except"]
            /\ UNCHANGED outbox
    /\ UNCHANGED <<now, inbox, wlock, wsel, holders, op, routerVars, crashes, senderVars, backoffVars, auxVars>>

\* tick_once, line 145-146: the except clause logs the error.  ok = FALSE: this
\* log write raises too; the finally clause still runs and the new exception
\* propagates.
TickExceptLog(w, ok) ==
    /\ wpc[w] = "except"
    /\ wpc' = [wpc EXCEPT ![w] = "finally"]
    /\ rexc' = [rexc EXCEPT ![w] = ~ok]
    /\ UNCHANGED <<now, inbox, wlock, wsel, holders, op, wmsg, rres, crashes, outbox, senderVars, backoffVars, auxVars>>

\* the ack after the try statement instead of in its finally clause
TickAckAfterTry(w, ok) ==
    /\ wpc[w] = "finally"
    /\ IF rexc[w] THEN UNCHANGED <<inbox, holders, op>> ELSE RouterAck(w, ok)
    /\ EndTick(w, IF rexc[w] THEN "raised_log" ELSE IF ok THEN "True" ELSE "raised_ack")
    /\ UNCHANGED <<now, wlock, wsel, crashes, outbox, senderVars, backoffVars, auxVars>>

\* tick_once, line 147-150: the finally clause acks; then return True, or
\* the propagating exception leaves tick_once.
TickFinallyAck(w, ok) ==
    /\ wpc[w] = "finally"
    /\ RouterAck(w, ok)
    /\ EndTick(w, IF ~ok THEN "raised_ack" ELSE IF rexc[w] THEN "raised_log" ELSE "True")
    /\ UNCHANGED <<now, wlock, wsel, crashes, outbox, senderVars, backoffVars, auxVars>>

\* The process dies and is started again: threads, connections and the open
\* transaction are gone, the tables stay.
Crash ==
    /\ crashes < MaxCrash
    /\ crashes' = crashes + 1
    /\ wlock' = NoWorker
    /\ wpc' = [w \in Workers |-> "idle"]
    /\ wsel' = [w \in Workers |-> 0]
    /\ wmsg' = [w \in Workers |-> 0]
    /\ rexc' = [w \in Workers |-> FALSE]
    /\ rres' = [w |-> NoWorker, res |-> "none"]
    /\ holders' = [i \in Ids |-> {}]
    /\ wd' = [fail |-> 0, up |-> TRUE, next |-> 0]
    /\ spc' = "top"
    /\ sjob' = NoFetch
    /\ sout' = 0
    /\ swake' = 0
    /\ UNCHANGED <<now, inbox, op, outbox, peer, bIn, bOut, auxVars>>

\* One step of router w: tick_once from its call to its end.  The handler may
\* raise in any case; Faults is the set of outcomes a log write or an ack of
\* tick_once itself may have: {TRUE}, or BOOLEAN when these writes may fail.
RouterStep(w, Faults) ==
    \/ ClaimBegin(w)
    \/ ClaimSelect(w)
    \/ ClaimCommit(w, "claimed")
    \/ TickExtract(w)
    \/ \E ok \in Faults : TickNoLineLog(w, ok)
    \/ \E ok \in Faults : TickNoLineAck(w, ok)
    \/ \E ok \in BOOLEAN : TickHandle(w, ok)
    \/ \E ok \in Faults : TickExceptLog(w, ok)
    \/ \E ok \in Faults : TickFinallyAck(w, ok)

\* Routers draining what the intake stores, with store writes that may fail.
RouterNext ==
    \/ \E k \in Keys, b \in Bodies : Store(k, b)
    \/ \E w \in Routers : RouterStep(w, BOOLEAN)

RouterSpec == Init /\ [][RouterNext]_vars

\* Routers, the intake and process crashes; the log writes and acks succeed.
CrashNext ==
    \/ \E k \in Keys, b \in {"nomsg", "request"} : Store(k, b)
    \/ \E w \in Routers : RouterStep(w, {TRUE})
    \/ Crash

CrashSpec == Init /\ [][CrashNext]_vars /\ \A w \in Routers : WF_vars(RouterStep(w, {TRUE}))

\* The inbox under arbitrary callers: the intake (store), concurrent claimers,
\* and ack / nack of any id (the admin endpoint passes the id of the URL).
Next ==
    \/ Tick
    \/ \E k \in Keys : Store(k, "request")
    \/ \E w \in Workers : ClaimBegin(w)
    \/ \E w \in Workers : ClaimSelect(w)
    \/ \E w \in Workers : ClaimCommit(w, "idle")
    \/ \E i \in 1..NumKeys : Ack(i)
    \/ \E i \in 1..NumKeys : Nack(i)

Spec == Init /\ [][Next]_vars

\* ------------------------------------------------- service.py: backoff_s
Min(a, b) == IF a <= b THEN a ELSE b

\* backoff_s without the min with cap
BackoffUncapped(retry_count, base, cap) == base * (2 ^ Min(retry_count, 10))

\* backoff_s: n = min(retry_count, 10); min(cap, base * 2 ** n)
BackoffS(retry_count, base, cap) ==
    LET n == Min(retry_count, 10) IN Min(cap, base * (2 ^ n))

\* The arguments backoff_s is evaluated at: every retry count up to MaxN,
\* small bases and caps, the default cap of 60 s and a cap above base * 2^10.
BackoffInputs ==
    [n : 0..MaxN, base : 1..MaxBase, cap : (1..(MaxBase + 1)) \cup {60, 4096}]

BackoffInit ==
    /\ bIn \in BackoffInputs
    /\ bOut = -1
    /\ now = 0
    /\ inbox = <<>>
    /\ wlock = NoWorker
    /\ wpc = [w \in Workers |-> "idle"]
    /\ wsel = [w \in Workers |-> 0]
    /\ holders = <<>>
    /\ op = [name |-> "init", arg |-> 0, ret |-> 0]
    /\ wmsg = [w \in Workers |-> 0]
    /\ rexc = [w \in Workers |-> FALSE]
    /\ rres = [w |-> NoWorker, res |-> "none"]
    /\ crashes = 0
    /\ outbox = [s \in Slots |-> NoJob]
    /\ peer = "ok"
    /\ wd = [fail |-> 0, up |-> TRUE, next |-> 0]
    /\ spc = "top"
    /\ sjob = NoFetch
    /\ sout = 0
    /\ swake = 0
    /\ plog = <<>>
    /\ wret = [at |-> -1, probed |-> FALSE, up |-> TRUE]
    /\ ptab = EmptyTable
    /\ pcall = NoCall
    /\ ExtInit

\* A call backoff_s(n, base, cap).
BackoffCall ==
    /\ bOut = -1
    /\ bOut' = BackoffS(bIn.n, bIn.base, bIn.cap)
    /\ UNCHANGED <<now, inboxVars, routerVars, crashes, outbox, senderVars, bIn, auxVars>>

BackoffNext == BackoffCall

BackoffSpec == BackoffInit /\ [][BackoffNext]_vars

\* ------------------------------------------------- outbox.py, the sender
\* What the peer may answer a request with: a status code, or 0 for no
\* response at all (timeout, refused connection, any transport exception).
Outcomes == {0, 199, 200, 299, 300, 500}

\* HttpClient.request returns for any response, whatever its status
RaisesOnNoResponse(o) == o = 0

\* HttpClient.request raises: the transport raised, or the status is not 2xx.
RequestRaises(o) == o = 0 \/ ~(200 <= o /\ o < 300)

\* WHERE next_attempt_ts <= now
Due == {s \in Slots : outbox[s] # NoJob /\ outbox[s].nts <= now}

\* ORDER BY created_ts ASC alone
BeforeByCreated(a, b) == a.created <= b.created

\* ORDER BY created_ts DESC
BeforeNewestFirst(a, b) == a.created >= b.created

\* ORDER BY next_attempt_ts ASC, retry_count ASC, created_ts ASC
Before(a, b) ==
    \/ a.nts < b.nts
    \/ a.nts = b.nts /\ a.rc < b.rc
    \/ a.nts = b.nts /\ a.rc = b.rc /\ a.created <= b.created

\* Outbox.next_due: the rows LIMIT 1 may return (empty: None).
NextDue == {s \in Due : \A t \in Due : Before(outbox[s], outbox[t])}

\* An enqueue by the router or by the admin endpoint /api/outbox/enqueue.
EnqueueJob ==
    /\ FreeSlots # {}
    /\ outbox' = Enqueue(NewSlot, 0)
    /\ UNCHANGED <<now, inboxVars, routerVars, crashes, senderVars, backoffVars, auxVars>>

\* The peer goes down or comes back.  It goes down only while the clock is
\* below MaxSendTime, so that every retry falls inside the clock's range.
PeerFlip ==
    /\ peer = "ok" => now < MaxSendTime
    /\ peer' = IF peer = "ok" THEN "bad" ELSE "ok"
    /\ UNCHANGED <<now, inboxVars, routerVars, crashes, outbox, wd, spc, sjob, sout, swake, backoffVars, auxVars>>

\* The last tick of the sender's clock: the latest retry or wake-up that a
\* failure before MaxSendTime can schedule.
SendHorizon == MaxSendTime + (IF RetryCap >= WdInterval THEN RetryCap ELSE WdInterval)

\* Time passes for the sender: while it sleeps and while its request is under
\* way (the statements in between take no time); past MaxSendTime only with
\* the peer up.
SenderAdvance ==
    /\ spc \in {"sleep", "send"}
    /\ now + 1 >= MaxSendTime => peer = "ok"
    /\ Advance(SendHorizon)

\* Watchdog.tick that reports the last probe's result, without hysteresis
WatchdogTickLastProbe(health, ping) ==
    IF now < wd.next
    THEN wd
    ELSE LET ok == health \/ ping
             fail == IF ok THEN 0 ELSE wd.fail + 1
         IN  [fail |-> fail,
              up   |-> ok,
              next |-> now + (IF wd.up THEN WdInterval ELSE Min(WdInterval, QuickRecheck))]

\* Watchdog.tick with the results its probes would have: the health GET and
\* the ping (health_url and host are both configured).
WatchdogTick(health, ping) ==
    IF now < wd.next
    THEN wd
    ELSE LET ok == health \/ ping
             fail == IF ok THEN 0 ELSE wd.fail + 1
         IN  [fail |-> fail,
              up   |-> fail < WdDownAfter,
              next |-> now + (IF wd.up THEN WdInterval ELSE Min(WdInterval, QuickRecheck))]

\* sender_loop without "if not up: sleep; continue"
SenderWatchdogUngated(health, ping) ==
    /\ spc = "top"
    /\ peer = "ok" => health
    /\ ~(health \/ ping) => wd.fail < MaxFail
    /\ wd' = WatchdogTick(health, ping)
    /\ spc' = "fetch"
    /\ swake' = swake
    /\ UNCHANGED <<now, inboxVars, routerVars, crashes, outbox, peer, sjob, sout, backoffVars, auxVars>>

\* sender_loop, line 40-43: up = watchdog.tick(); if not up: sleep(interval).
SenderWatchdog(health, ping) ==
    /\ spc = "top"
    /\ peer = "ok" => health
    /\ ~(health \/ ping) => wd.fail < MaxFail
    /\ wd' = WatchdogTick(health, ping)
    /\ IF wd'.up
       THEN spc' = "fetch" /\ swake' = swake
       ELSE spc' = "sleep" /\ swake' = now + WdInterval
    /\ UNCHANGED <<now, inboxVars, routerVars, crashes, outbox, peer, sjob, sout, backoffVars, auxVars>>

\* time.sleep returns.
SenderWake ==
    /\ spc = "sleep"
    /\ now >= swake
    /\ spc' = "top"
    /\ UNCHANGED <<now, inboxVars, routerVars, crashes, outbox, peer, wd, sjob, sout, swake, backoffVars, auxVars>>

\* sender_loop, line 45-48: next_due() returned None; sleep(0.2), which is less
\* than a tick.
SenderFetchNone ==
    /\ spc = "fetch"
    /\ NextDue = {}
    /\ spc' = "sleep"
    /\ swake' = now
    /\ UNCHANGED <<now, inboxVars, routerVars, crashes, outbox, peer, wd, sjob, sout, backoffVars, auxVars>>

\* sender_loop, line 45: next_due() returned the job in slot s.
SenderFetchJob(s) ==
    /\ spc = "fetch"
    /\ s \in NextDue
    /\ sjob' = [slot |-> s, rc |-> outbox[s].rc, req |-> RequestOf(outbox[s])]
    /\ spc' = "send"
    /\ UNCHANGED <<now, inboxVars, routerVars, crashes, outbox, peer, wd, sout, swake, backoffVars, auxVars>>

\* sender_loop, line 50-56: client.request with outcome o.
SenderRequest(o) ==
    /\ spc = "send"
    /\ peer = "ok" => (200 <= o /\ o < 300)
    /\ RequestRaises(o) => sjob.rc < MaxRetry
    /\ sout' = o
    /\ spc' = IF RequestRaises(o) THEN "except" ELSE "delete"
    /\ UNCHANGED <<now, inboxVars, routerVars, crashes, outbox, peer, wd, sjob, swake, backoffVars, auxVars>>

\* sender_loop, line 58: outbox.delete(job.id).
SenderDelete ==
    /\ spc = "delete"
    /\ outbox' = [outbox EXCEPT ![sjob.slot] = NoJob]
    /\ spc' = "top"
    /\ sjob' = NoFetch
    /\ sout' = 0
    /\ UNCHANGED <<now, inboxVars, routerVars, crashes, peer, wd, swake, backoffVars, auxVars>>

\* sender_loop, line 60-64, with a fresh X-Idempotency-Key for the retry
SenderRescheduleNewKey ==
    /\ spc = "except"
    /\ LET rc == sjob.rc + 1 IN
       outbox' = [outbox EXCEPT ![sjob.slot].rc = rc,
                                ![sjob.slot].nts = now + BackoffS(rc, RetryBase, RetryCap),
                                ![sjob.slot].idem = "retry"]
    /\ spc' = "top"
    /\ sjob' = NoFetch
    /\ sout' = 0
    /\ UNCHANGED <<now, inboxVars, routerVars, crashes, peer, wd, swake, backoffVars, auxVars>>

\* sender_loop, line 60-64: rc = job.retry_count + 1;
\* reschedule(job.id, rc, time.time() + backoff_s(rc, base, cap)).
SenderReschedule ==
    /\ spc = "except"
    /\ LET rc == sjob.rc + 1 IN
       outbox' = [outbox EXCEPT ![sjob.slot].rc = rc,
                                ![sjob.slot].nts = now + BackoffS(rc, RetryBase, RetryCap)]
    /\ spc' = "top"
    /\ sjob' = NoFetch
    /\ sout' = 0
    /\ UNCHANGED <<now, inboxVars, routerVars, crashes, peer, wd, swake, backoffVars, auxVars>>

\* One step of the sender thread.
SenderStep ==
    \/ \E health, ping \in BOOLEAN : SenderWatchdog(health, ping)
    \/ SenderWake
    \/ SenderFetchNone
    \/ \E s \in Slots : SenderFetchJob(s)
    \/ \E o \in Outcomes : SenderRequest(o)
    \/ SenderDelete
    \/ SenderReschedule

SenderNext ==
    \/ SenderAdvance
    \/ EnqueueJob
    \/ PeerFlip
    \/ SenderStep

SenderSpec == Init /\ [][SenderNext]_vars

\* The sender thread keeps running, time keeps passing, and among rows that
\* tie in next_due's ORDER BY no row is passed over for ever.
LiveSenderSpec ==
    /\ SenderSpec
    /\ WF_vars(SenderStep)
    /\ SF_vars(SenderAdvance)
    /\ \A s \in Slots : SF_vars(SenderFetchJob(s))

\* ------------------------------------------- the sender with the peer up
\* The most jobs that are enqueued while the outbox is not empty.
MaxTag == 3

\* The jobs in the outbox.
Present == {s \in Slots : outbox[s] # NoJob}

\* The place of the next enqueue among the jobs in the outbox: their
\* X-Correlation-Id counts them in the order of their INSERT.
NextTag == IF Present = {} THEN 1
           ELSE 1 + (CHOOSE n \in 1..MaxTag : /\ \E s \in Present : outbox[s].corr = n
                                              /\ \A s \in Present : outbox[s].corr <= n)

\* An enqueue by the router, the reply to the NextTag-th request.
EnqueueTagged ==
    /\ FreeSlots # {}
    /\ NextTag <= MaxTag
    /\ outbox' = Enqueue(NewSlot, NextTag)
    /\ UNCHANGED <<now, inboxVars, routerVars, crashes, senderVars, backoffVars, auxVars>>

\* The sender while the peer answers every probe and every request with 2xx.
FifoNext ==
    \/ SenderAdvance
    \/ EnqueueTagged
    \/ \E ping \in BOOLEAN : SenderWatchdog(TRUE, ping)
    \/ SenderWake
    \/ SenderFetchNone
    \/ \E s \in Slots : SenderFetchJob(s)
    \/ \E o \in {200, 299} : SenderRequest(o)
    \/ SenderDelete

FifoSpec == Init /\ [][FifoNext]_vars

\* ------------------------------------------------- watchdog.py on its own
\* The last n entries of sequence q.
LastN(q, n) == IF Len(q) <= n THEN q ELSE SubSeq(q, Len(q) - n + 1, Len(q))

\* A call of Watchdog.tick() at any time, with any results of its probes.
\* plog keeps the results of the last WdDownAfter + 1 probes.  The fail
\* counter is followed up to MaxFail + 1.
WatchdogCall(health, ping) ==
    LET probes == now >= wd.next IN
    /\ (probes /\ ~(health \/ ping)) => wd.fail <= MaxFail
    /\ wd' = WatchdogTick(health, ping)
    /\ plog' = IF probes THEN LastN(Append(plog, health \/ ping), WdDownAfter + 1) ELSE plog
    /\ wret' = [at |-> now, probed |-> probes, up |-> wd'.up]
    /\ UNCHANGED <<now, inboxVars, routerVars, crashes, outbox, peer, spc, sjob, sout, swake, backoffVars,
                   paramVars, extVars>>

WatchdogAdvance == Advance(SendHorizon)

WatchdogNext ==
    \/ WatchdogAdvance
    \/ \E health, ping \in BOOLEAN : WatchdogCall(health, ping)

WatchdogSpec == Init /\ [][WatchdogNext]_vars

\* ------------------------------------- params.py, router.py, device_bridge.py
\* Reply lines: {pkey}=NAK_<code>, {pkey}=<value>, ACK_{pkey}=<value>; or the
\* call raised.
ReplyNak(code) == [k |-> "nak", code |-> code, v |-> None]
ReplyValue(v) == [k |-> "value", code |-> "", v |-> v]
ReplyAck(v) == [k |-> "ack", code |-> "", v |-> v]
Raised == [k |-> "raise", code |-> "", v |-> None]

\* No ptype is read-only
NoTypeReadOnly(ptype) == FALSE

\* ptype in READONLY_TYPES
IsReadOnlyType(ptype) == ptype \in READONLY_TYPES

\* _channel_for_ptype
ChannelFor(ptype) ==
    IF ptype \in {"TTP", "TTE", "TTW"} THEN "vj6530"
    ELSE IF ptype \in {"LSP", "LSE", "LSW"} THEN "vj3350"
    ELSE IF ptype \in {"MAP", "MAS", "MAE", "MAW"} THEN "esp-plc"
    ELSE "raspi"

\* ParamStore.get_meta (known: there is a row) with get_value.
GetMeta(pk) == RowOf(ptab, pk)

\* ParamStore.get_effective_value: the value, else the default, else "0".
GetEffectiveValue(pk) ==
    IF GetMeta(pk).val # None THEN GetMeta(pk).val
    ELSE IF GetMeta(pk).def # None THEN GetMeta(pk).def
    ELSE Num(0)

\* ParamStore.set_value with a range check that rejects the bounds too
SetValueExclusive(pk, value) ==
    LET m == GetMeta(pk) IN
    IF ~m.known THEN "NAK_UnknownParam"
    ELSE IF m.rw = "R" THEN "NAK_ReadOnly"
    ELSE IF value.k = "num" /\ m.min.has /\ value.n <= m.min.v THEN "NAK_OutOfRange"
    ELSE IF value.k = "num" /\ m.max.has /\ value.n >= m.max.v THEN "NAK_OutOfRange"
    ELSE "OK"

\* ParamStore.set_value(pkey, value), what it returns: "OK" or the error.
\* The range check applies to values float() accepts.
SetValueResult(pk, value) ==
    LET m == GetMeta(pk) IN
    IF ~m.known THEN "NAK_UnknownParam"
    ELSE IF m.rw = "R" THEN "NAK_ReadOnly"
    ELSE IF value.k = "num" /\ m.min.has /\ value.n < m.min.v THEN "NAK_OutOfRange"
    ELSE IF value.k = "num" /\ m.max.has /\ value.n > m.max.v THEN "NAK_OutOfRange"
    ELSE "OK"

\* ParamStore.set_value without the UPDATE of params.default_v
SetValueTableNoDefault(pk, value) ==
    IF SetValueResult(pk, value) = "OK"
    THEN [ptab EXCEPT ![pk].val = value]
    ELSE ptab

\* ParamStore.set_value, the tables after it: an accepted value is upserted
\* into param_values and written to params.default_v.
SetValueTable(pk, value) ==
    IF SetValueResult(pk, value) = "OK"
    THEN [ptab EXCEPT ![pk].val = value, ![pk].def = value]
    ELSE ptab

\* ParamStore.apply_device_value, the tables after it: only param_values.
ApplyDeviceValueTable(pk, value) ==
    IF GetMeta(pk).known THEN [ptab EXCEPT ![pk].val = value] ELSE ptab

\* The requests: reads (RHS ?, no value) and writes of a number or a text.
WriteValues == {Num(n) : n \in 0..MaxVal} \cup {Text}
Requests == [op : {"read"}, value : {None}] \cup [op : {"write"}, value : WriteValues]

\* A direct call ParamStore.set_value(pkey, value).
ParamSetValue(pk, value) ==
    /\ ptab' = SetValueTable(pk, value)
    /\ pcall' = [by |-> "store", device |-> "", pkey |-> pk, op |-> "write", value |-> value,
                 resp |-> (IF SetValueResult(pk, value) = "OK"
                           THEN ReplyAck(value) ELSE ReplyNak(SetValueResult(pk, value))),
                 sim |-> TRUE, dev |-> FALSE, args |-> NoArgs, end |-> "none"]
    /\ UNCHANGED <<now, inboxVars, routerVars, crashes, outbox, senderVars, backoffVars, wdVars, extVars>>

\* Router.handle_mikrotom_line for the parsed line (ptype, pid, op, value):
\* the reply it computes and what it does to the parameter store.  It talks
\* to no device.
HandleMikrotomLine(pk, r) ==
    LET resp ==
            IF r.op = "read"
            THEN IF IsReadOnlyType(pk[1]) THEN ReplyNak("NAK_ReadOnly")
                 ELSE IF ~GetMeta(pk).known THEN ReplyNak("NAK_UnknownParam")
                 ELSE ReplyValue(GetEffectiveValue(pk))
            ELSE IF IsReadOnlyType(pk[1]) THEN ReplyNak("NAK_ReadOnly")
                 ELSE IF SetValueResult(pk, r.value) = "OK" THEN ReplyAck(r.value)
                 ELSE ReplyNak(SetValueResult(pk, r.value))
    IN
    /\ ptab' = IF r.op = "write" /\ ~IsReadOnlyType(pk[1]) THEN SetValueTable(pk, r.value) ELSE ptab
    /\ pcall' = [by |-> "router", device |-> ChannelFor(pk[1]), pkey |-> pk, op |-> r.op,
                 value |-> r.value, resp |-> resp, sim |-> TRUE, dev |-> FALSE, args |-> NoArgs, end |-> "none"]
    /\ UNCHANGED <<now, inboxVars, routerVars, crashes, outbox, senderVars, backoffVars, wdVars, extVars>>

\* The devices execute is called for, and how a live exchange can end: the
\* device's watchdog says down, the exchange raises, or the answer has the
\* value the device reports.
Devices == {"raspi", "esp-plc"}
LiveEnds == {"down", "comm", "value"}
DeviceValue == Num(1)

\* DeviceBridge._is_simulation, sim being the device's simulation flag.
IsSimulation(device, sim) == IF device \in {"esp-plc", "vj6530", "vj3350"} THEN sim ELSE TRUE

\* DeviceBridge._simulate: the reply.
SimulateReply(pk, r) ==
    IF r.op = "read"
    THEN IF ~GetMeta(pk).known THEN ReplyNak("NAK_UnknownParam")
         ELSE ReplyValue(GetEffectiveValue(pk))
    ELSE IF SetValueResult(pk, r.value) = "OK" THEN ReplyAck(r.value)
         ELSE ReplyNak(SetValueResult(pk, r.value))

\* a pre-validation that lets every write through
ValidateNothing(pk, value) == "OK"

\* params.validate_write(pkey, value) -> (ok, msg): the pre-validation of a
\* live write against the parameter metadata, the checks of set_value without
\* its writes; "OK" or the NAK code.
ValidateWrite(pk, value) == SetValueResult(pk, value)

\* The refusal of a device that has answered: the line client's NAK reply to a
\* write, the ZBC error message, the Ultimate NAK byte with its result code.
DeviceNak(device) ==
    IF device = "esp-plc" THEN ReplyNak("NAK_DeviceRejected")
    ELSE IF device = "vj6530" THEN ReplyNak("NAK_ZBC")
    ELSE ReplyNak("NAK_Ultimate")

\* A live read: the reply and the tables after it (apply_device_value stores
\* the reported value).
LiveReadReply(pk, device, end) ==
    IF end = "down" THEN ReplyNak("NAK_DeviceDown")
    ELSE IF end \in {"comm", "store"} THEN ReplyNak("NAK_DeviceComm")
    ELSE IF end = "log" THEN Raised
    ELSE IF end = "nak" THEN DeviceNak(device)
    ELSE IF ~GetMeta(pk).known THEN ReplyNak("NAK_UnknownParam")
    ELSE ReplyValue(DeviceValue)

\* A live write that has passed the pre-validation: the reply.
LiveWriteReply(pk, device, value, end) ==
    IF end = "down" THEN ReplyNak("NAK_DeviceDown")
    ELSE IF end = "comm" THEN ReplyNak("NAK_DeviceComm")
    ELSE IF end = "log" THEN Raised
    ELSE IF end = "nak" THEN DeviceNak(device)
    ELSE ReplyAck(value)

\* DeviceBridge.execute(device, pkey, ptype, op, value).  end is how the call
\* ends: "value" with everything working, "down" with the line device's
\* watchdog reporting it down, "comm" with the device client raising (timeout,
\* refused connection, broken frame), "nak" with the device refusing, "log"
\* with the client raising and the log store raising on the error entry,
\* "store" with the parameter store raising on its first call (the database
\* is locked or unreadable).  Only the live dispatch is inside the try block.
Execute(device, pk, r, sim, end) ==
    LET Call(resp, s, d) ==
            [by |-> "bridge", device |-> device, pkey |-> pk, op |-> r.op, value |-> r.value,
             resp |-> resp, sim |-> s, dev |-> d, args |-> NoArgs, end |-> end]
    IN
    /\ IF IsReadOnlyType(pk[1])
       THEN /\ ptab' = ptab
            /\ pcall' = Call(ReplyNak("NAK_ReadOnly"), IsSimulation(device, sim), FALSE)
       ELSE IF device = "raspi" \/ IsSimulation(device, sim)
       THEN IF end = "store"
            THEN /\ ptab' = ptab
                 /\ pcall' = Call(Raised, TRUE, FALSE)
            ELSE /\ ptab' = IF r.op = "write" THEN SetValueTable(pk, r.value) ELSE ptab
                 /\ pcall' = Call(SimulateReply(pk, r), TRUE, FALSE)
       ELSE IF r.op = "write" /\ end = "store"
       THEN /\ ptab' = ptab
            /\ pcall' = Call(Raised, FALSE, FALSE)
       ELSE IF r.op = "write" /\ ValidateWrite(pk, r.value) # "OK"
       THEN /\ ptab' = ptab
            /\ pcall' = Call(ReplyNak(ValidateWrite(pk, r.value)), FALSE, FALSE)
       ELSE IF r.op = "write"
       THEN /\ ptab' = IF end = "value" THEN SetValueTable(pk, r.value) ELSE ptab
            /\ pcall' = Call(LiveWriteReply(pk, device, r.value, end), FALSE, end \notin {"down"})
       ELSE /\ ptab' = IF end = "value" THEN ApplyDeviceValueTable(pk, DeviceValue) ELSE ptab
            /\ pcall' = Call(LiveReadReply(pk, device, end), FALSE, end \notin {"down", "store"})
    /\ UNCHANGED <<now, inboxVars, routerVars, crashes, outbox, senderVars, backoffVars, wdVars, extVars>>

\* The calls: set_value on the parameter of the writable type, any request
\* to the router, and any request to the bridge, for a device in simulation
\* or live with each end of the exchange.
ParamNext ==
    \/ \E pk \in {<<"TTP", 1>>, <<"TTP", 9>>}, value \in WriteValues : ParamSetValue(pk, value)
    \/ \E pk \in PKeys, r \in Requests : HandleMikrotomLine(pk, r)
    \/ \E device \in Devices, pk \in PKeys, r \in Requests :
          \/ Execute(device, pk, r, TRUE, "value")
          \/ \E end \in LiveEnds : device = "esp-plc" /\ Execute(device, pk, r, FALSE, end)

ParamInit ==
    /\ ptab \in {ParamTableOf(m) : m \in MetaShapes}
    /\ pcall = NoCall
    /\ ExtInit
    /\ plog = <<>>
    /\ wret = [at |-> -1, probed |-> FALSE, up |-> TRUE]
    /\ bIn = [n |-> 0, base |-> 1, cap |-> 1]
    /\ bOut = -1
    /\ now = 0
    /\ inbox = <<>>
    /\ wlock = NoWorker
    /\ wpc = [w \in Workers |-> "idle"]
    /\ wsel = [w \in Workers |-> 0]
    /\ holders = <<>>
    /\ op = [name |-> "init", arg |-> 0, ret |-> 0]
    /\ wmsg = [w \in Workers |-> 0]
    /\ rexc = [w \in Workers |-> FALSE]
    /\ rres = [w |-> NoWorker, res |-> "none"]
    /\ crashes = 0
    /\ outbox = [s \in Slots |-> NoJob]
    /\ peer = "ok"
    /\ wd = [fail |-> 0, up |-> TRUE, next |-> 0]
    /\ spc = "top"
    /\ sjob = NoFetch
    /\ sout = 0
    /\ swake = 0

ParamSpec == ParamInit /\ [][ParamNext]_vars

\* ------------------------------------------- params.py: the store's own calls
\* A direct call ParamStore.apply_device_value(pkey, value): no rw check, no
\* range check, and only param_values is written.
ParamApplyDeviceValue(pk, value) ==
    /\ ptab' = ApplyDeviceValueTable(pk, value)
    /\ pcall' = [by |-> "device", device |-> "", pkey |-> pk, op |-> "write", value |-> value,
                 resp |-> (IF GetMeta(pk).known THEN ReplyAck(value) ELSE ReplyNak("NAK_UnknownParam")),
                 sim |-> TRUE, dev |-> FALSE, args |-> NoArgs, end |-> "none"]
    /\ UNCHANGED <<now, inboxVars, routerVars, crashes, outbox, senderVars, backoffVars, wdVars, extVars>>

\* update_meta's normalisation of rw: strip, upper, RW and R_W to R/W; "<bad>"
\* for what is not R, W, R/W or empty afterwards.
NormalizeRw(rw) ==
    IF rw \in {"R", "r"} THEN "R"
    ELSE IF rw \in {"W", "w"} THEN "W"
    ELSE IF rw \in {"R/W", "r/w", "RW", "rw", "R_W", "r_w"} THEN "R/W"
    ELSE IF rw = "" THEN ""
    ELSE "<bad>"

\* The row update_meta(pkey, default_v, min_v, max_v, rw) would write: an
\* argument left None keeps the column.
UpdateMetaRow(pk, a) ==
    LET m == GetMeta(pk) IN
    [m EXCEPT !.min = IF a.min.has THEN a.min ELSE m.min,
              !.max = IF a.max.has THEN a.max ELSE m.max,
              !.def = IF a.def # None THEN a.def ELSE m.def,
              !.rw  = NormalizeRw(IF a.rw = "<none>" THEN m.rw ELSE a.rw)]

\* update_meta without the check of the default against the new bounds
UpdateMetaNoDefaultCheck(pk, a) ==
    LET r == UpdateMetaRow(pk, a) IN
    IF ~GetMeta(pk).known THEN "NAK_UnknownParam"
    ELSE IF r.rw = "<bad>" THEN "NAK_BadRW"
    ELSE IF r.min.has /\ r.max.has /\ r.min.v > r.max.v THEN "NAK_MinGreaterThanMax"
    ELSE "OK"

\* ParamStore.update_meta, what it returns: "OK" or the error.
UpdateMetaResult(pk, a) ==
    LET r == UpdateMetaRow(pk, a) IN
    IF ~GetMeta(pk).known THEN "NAK_UnknownParam"
    ELSE IF r.rw = "<bad>" THEN "NAK_BadRW"
    ELSE IF r.min.has /\ r.max.has /\ r.min.v > r.max.v THEN "NAK_MinGreaterThanMax"
    ELSE IF r.def.k = "num" /\ r.min.has /\ r.def.n < r.min.v THEN "NAK_DefaultOutOfRange"
    ELSE IF r.def.k = "num" /\ r.max.has /\ r.def.n > r.max.v THEN "NAK_DefaultOutOfRange"
    ELSE "OK"

\* A call ParamStore.update_meta(pkey, ...) with arguments a.
ParamUpdateMeta(pk, a) ==
    /\ ptab' = IF UpdateMetaResult(pk, a) = "OK"
               THEN [ptab EXCEPT ![pk] = UpdateMetaRow(pk, a)]
               ELSE ptab
    /\ pcall' = [by |-> "meta", device |-> "", pkey |-> pk, op |-> "meta", value |-> None,
                 resp |-> (IF UpdateMetaResult(pk, a) = "OK"
                           THEN ReplyAck(None) ELSE ReplyNak(UpdateMetaResult(pk, a))),
                 sim |-> TRUE, dev |-> FALSE, args |-> a, end |-> "none"]
    /\ UNCHANGED <<now, inboxVars, routerVars, crashes, outbox, senderVars, backoffVars, wdVars, extVars>>

\* The arguments update_meta is called with: nothing, one of default, min,
\* max, rw (a good, a lower-case, an empty and a bad flag), or both bounds.
MetaArgs ==
    {NoArgs}
    \cup {[NoArgs EXCEPT !.def = d] : d \in {Num(0), Num(MaxVal), Text}}
    \cup {[NoArgs EXCEPT !.min = Bound(v)] : v \in {0, MaxVal}}
    \cup {[NoArgs EXCEPT !.max = Bound(v)] : v \in {0, MaxVal}}
    \cup {[NoArgs EXCEPT !.rw = f] : f \in {"R", "rw", "", "X"}}
    \cup {[NoArgs EXCEPT !.min = Bound(MaxVal), !.max = Bound(0)],
          [NoArgs EXCEPT !.min = Bound(0), !.max = Bound(MaxVal)]}

StoreKeys == {<<"TTP", 1>>, <<"TTP", 9>>}

ParamStoreNext ==
    \/ \E pk \in StoreKeys, value \in WriteValues : ParamSetValue(pk, value)
    \/ \E pk \in StoreKeys, value \in WriteValues : ParamApplyDeviceValue(pk, value)
    \/ \E pk \in StoreKeys, a \in MetaArgs : ParamUpdateMeta(pk, a)

ParamStoreSpec == ParamInit /\ [][ParamStoreNext]_vars

\* ------------------------------------- params.py: calls in two threads
\* Every thread has a connection of its own in autocommit mode (db.py 95-101),
\* so every statement of a call is a transaction of its own and the
\* statements of two calls interleave.  The calls are for one parameter.
RaceKey == <<"TTP", 1>>

RaceFrame ==
    UNCHANGED <<now, inboxVars, routerVars, crashes, outbox, senderVars, backoffVars,
                wdVars, pcall, intakeVars, codecVars, clientVars, scfg, adm>>

\* set_value, line 168-185: get_meta and the checks against it.
SetValueCheck(t, value) ==
    /\ pth[t].pc = "idle"
    /\ pth' = [pth EXCEPT ![t] = [pc |-> IF SetValueResult(RaceKey, value) = "OK" THEN "insert" ELSE "done",
                                  call |-> "set", value |-> value, row |-> NoParam,
                                  ret |-> SetValueResult(RaceKey, value)]]
    /\ ptab' = ptab
    /\ RaceFrame

\* set_value, line 189-193: the upsert into param_values.
SetValueInsert(t) ==
    /\ pth[t].pc = "insert"
    /\ ptab' = [ptab EXCEPT ![RaceKey].val = pth[t].value]
    /\ pth' = [pth EXCEPT ![t].pc = "update"]
    /\ RaceFrame

\* set_value, line 195-199: the UPDATE of params.default_v; return OK.
SetValueUpdate(t) ==
    /\ pth[t].pc = "update"
    /\ ptab' = [ptab EXCEPT ![RaceKey].def = pth[t].value]
    /\ pth' = [pth EXCEPT ![t].pc = "done"]
    /\ RaceFrame

\* update_meta, line 228-260: get_meta, the new columns and their checks.
UpdateMetaCheck(t, a) ==
    /\ pth[t].pc = "idle"
    /\ pth' = [pth EXCEPT ![t] = [pc |-> IF UpdateMetaResult(RaceKey, a) = "OK" THEN "write" ELSE "done",
                                  call |-> "meta", value |-> None, row |-> UpdateMetaRow(RaceKey, a),
                                  ret |-> UpdateMetaResult(RaceKey, a)]]
    /\ ptab' = ptab
    /\ RaceFrame

\* update_meta, line 262-269: the UPDATE of default_v, min_v, max_v and rw.
UpdateMetaWrite(t) ==
    /\ pth[t].pc = "write"
    /\ ptab' = [ptab EXCEPT ![RaceKey].def = pth[t].row.def, ![RaceKey].min = pth[t].row.min,
                            ![RaceKey].max = pth[t].row.max, ![RaceKey].rw = pth[t].row.rw]
    /\ pth' = [pth EXCEPT ![t].pc = "done"]
    /\ RaceFrame

\* update_meta is called for the bounds or the flag, not for the default.
RaceArgs == {a \in MetaArgs : a.def = None}

\* Each thread makes one call.
RaceNext ==
    \E t \in Threads :
        \/ \E value \in WriteValues : SetValueCheck(t, value)
        \/ SetValueInsert(t)
        \/ SetValueUpdate(t)
        \/ \E a \in RaceArgs : UpdateMetaCheck(t, a)
        \/ UpdateMetaWrite(t)

RaceSpec == ParamInit /\ [][RaceNext]_vars

\* ------------------------------------------------ outbox.py under any caller
\* The headers and keys callers pass to enqueue: none ({} or None), a
\* correlation id, an X-Idempotency-Key of their own, a supplied key.
CallerHeaders == [corr : {0, 1}, idem : {NoHeader, "h1"}]
CallerKeys == {NoKey, "k1"}

\* Outbox.enqueue as any caller may call it (the router, /api/outbox/enqueue,
\* the test helpers).
OutboxEnqueueAny(headers, key) ==
    /\ FreeSlots # {}
    /\ outbox' = EnqueueRow(NewSlot, "POST", PeerInboxUrl, headers, ReplyBody, key)
    /\ UNCHANGED <<now, inboxVars, routerVars, crashes, senderVars, backoffVars, auxVars>>

\* Outbox.reschedule(job_id, retry_count, next_attempt_ts):
\* UPDATE outbox SET retry_count=?, next_attempt_ts=? WHERE id=?
OutboxReschedule(s, rc, ts) ==
    /\ outbox[s] # NoJob
    /\ outbox' = [outbox EXCEPT ![s].rc = rc, ![s].nts = ts]
    /\ UNCHANGED <<now, inboxVars, routerVars, crashes, senderVars, backoffVars, auxVars>>

\* Outbox.delete(job_id): DELETE FROM outbox WHERE id=?
OutboxDelete(s) ==
    /\ outbox[s] # NoJob
    /\ outbox' = [outbox EXCEPT ![s] = NoJob]
    /\ UNCHANGED <<now, inboxVars, routerVars, crashes, senderVars, backoffVars, auxVars>>

\* The clock stands still: the headers do not depend on it.
OutboxNext ==
    \/ \E headers \in CallerHeaders, key \in CallerKeys : OutboxEnqueueAny(headers, key)
    \/ \E s \in Slots, rc \in 1..MaxRetry : OutboxReschedule(s, rc, now + RetryBase)
    \/ \E s \in Slots : OutboxDelete(s)

OutboxSpec == Init /\ [][OutboxNext]_vars

\* ------------------------------------------- the sender under any caller
\* The router's job: no headers, no key.
RouterJob == [headers |-> [corr |-> 0, idem |-> NoHeader], key |-> NoKey]

\* The job of a caller of the admin endpoint, with an X-Correlation-Id, an
\* X-Idempotency-Key and a key of its own.
AdminJob == [headers |-> [corr |-> 1, idem |-> "h1"], key |-> "k1"]

\* A caller enqueues its job j when its last one has left the outbox.
EnqueueOnce(j) ==
    /\ \A s \in Slots : outbox[s].corr # j.headers.corr
    /\ OutboxEnqueueAny(j.headers, j.key)

\* The two callers; the sender; a crash of the process at any point, also
\* between the response and the delete.
RetryNext ==
    \/ EnqueueOnce(RouterJob)
    \/ EnqueueOnce(AdminJob)
    \/ SenderAdvance
    \/ PeerFlip
    \/ SenderStep
    \/ Crash

RetrySpec == Init /\ [][RetryNext]_vars

\* ------------------------------------------------------- service.py: main
\* What main() starts: the sender thread (line 70-71) and the HTTP server
\* (line 73-87) with the intake POST /api/inbox, the admin ack
\* POST /api/inbox/{id}/ack and POST /api/outbox/enqueue.  No Router is
\* constructed and Router.tick_once has no caller.  One message is followed.
ServiceNext ==
    \/ Store(1, "request")
    \/ Ack(1)
    \/ EnqueueJob
    \/ PeerFlip
    \/ SenderStep
    \/ SenderAdvance

\* The threads of the service keep running, time keeps passing and every
\* outage of the peer ends; nothing obliges an operator to call the admin
\* endpoints.
ServiceSpec ==
    /\ Init
    /\ [][ServiceNext]_vars
    /\ WF_vars(SenderStep)
    /\ SF_vars(SenderAdvance)
    /\ WF_vars(peer = "bad" /\ PeerFlip)

\* ------------------------------------------------------------------- codec
\* device_protocols.py: bytes are 0..255, byte strings are sequences of them.
\* The bitwise operators of Python on non-negative integers.
\* They are functions, so that an argument is a value when its body runs.
Xor[a \in Nat, b \in Nat] ==
    IF a = 0 THEN b
    ELSE IF b = 0 THEN a
    ELSE ((a + b) % 2) + 2 * Xor[a \div 2, b \div 2]

BitAnd[a \in Nat, b \in Nat] ==
    IF a = 0 \/ b = 0 THEN 0
    ELSE ((a % 2) * (b % 2)) + 2 * BitAnd[a \div 2, b \div 2]

BitOr(a, b) == a + b - BitAnd[a, b]

ZBC_START == 165
ZBC_END == 228
ZBC_FLAG_CS == 16

\* One turn of crc16_ccitt's inner loop.
CrcShift[crc \in Nat] ==
    IF BitAnd[crc, 32768] # 0 THEN Xor[(crc * 2) % 65536, 4129] ELSE (crc * 2) % 65536

\* The eight turns for one byte.
CrcByte[crc \in Nat, byte \in Nat] ==
    CrcShift[CrcShift[CrcShift[CrcShift[CrcShift[CrcShift[CrcShift[CrcShift[
        Xor[crc, (byte % 256) * 256]]]]]]]]]

\* crc16_ccitt's outer loop over data[i..], from the register value crc.
CrcFrom[crc \in Nat, data \in Seq(Nat), i \in Nat] ==
    IF i > Len(data) THEN crc % 65536 ELSE CrcFrom[CrcByte[crc, data[i]], data, i + 1]

\* the CRC-16 with the register starting at 0xFFFF
crc16_ones(data) == CrcFrom[65535, data, 1]

\* crc16_ccitt: the register starts at 0.
crc16_ccitt(data) == CrcFrom[0, data, 1]

SumBytes[data \in Seq(Nat)] == IF data = <<>> THEN 0 ELSE Head(data) + SumBytes[Tail(data)]

\* zbc_header_checksum
zbc_header_checksum(header) == 255 - (SumBytes[header] % 256)

\* struct.pack("<H", n) and struct.unpack("<H", two bytes)
PackH(n) == <<n % 256, (n \div 256) % 256>>
UnpackH(lo, hi) == lo + 256 * hi

\* build_zbc_packet with with_checksum decided.
BuildZbc(flags, transaction_id, sequence_id, payload, with_checksum) ==
    LET fl == IF with_checksum THEN BitOr(flags, ZBC_FLAG_CS) ELSE flags - BitAnd[flags, ZBC_FLAG_CS]
        total_size == 10 + Len(payload) + (IF with_checksum THEN 2 ELSE 0)
        header == <<ZBC_START, fl % 256>> \o PackH(total_size % 65536)
                    \o PackH(transaction_id % 65536) \o PackH(sequence_id % 65536) \o <<ZBC_END>>
    IN header \o <<zbc_header_checksum(header)>> \o payload
         \o (IF with_checksum THEN PackH(crc16_ccitt(payload)) ELSE <<>>)

\* build_zbc_packet(flags, transaction_id, sequence_id, payload) with
\* force_checksum left at None: the checksum goes with a non-empty payload.
build_zbc_packet(flags, transaction_id, sequence_id, payload) ==
    BuildZbc(flags, transaction_id, sequence_id, payload, payload # <<>>)

ZBC_FLAG_ACK == 4
ZBC_FLAG_NAK == 8

\* an acknowledgement that echoes the flags it refers to
BuildAckEcho(ref_flags, transaction_id, sequence_id) ==
    BuildZbc(ref_flags, transaction_id, sequence_id, <<>>, FALSE)

\* build_zbc_ack: SQS, FIN, CS, ADR and ASY of the flags referred to, ACK set,
\* NAK cleared; no payload and force_checksum False.
build_zbc_ack(ref_flags, transaction_id, sequence_id) ==
    LET kept == BitOr(BitAnd[ref_flags, 1 + 2 + 16 + 32 + 64], ZBC_FLAG_ACK)
    IN BuildZbc(kept - BitAnd[kept, ZBC_FLAG_NAK], transaction_id, sequence_id, <<>>, FALSE)

\* parse_zbc_message returns: at least the six bytes of id and length, and a
\* length (4 bytes, little endian) from 6 to the length of the data.
ParseZbcMessageOk(data) ==
    /\ Len(data) >= 6
    /\ LET msg_len == data[3] + 256 * data[4] + 65536 * data[5] + 16777216 * data[6]
       IN msg_len >= 6 /\ msg_len <= Len(data)

\* a parse that does not look at the header checksum
ParseNoHeaderChecksum(packet) ==
    IF Len(packet) < 10 THEN ValueError("ZBC packet too short")
    ELSE
    LET flags == packet[2]
        size == UnpackH(packet[3], packet[4])
        has_cs == BitAnd[flags, ZBC_FLAG_CS] # 0
        payload == SubSeq(packet, 11, Len(packet) - (IF has_cs THEN 2 ELSE 0))
    IN  IF packet[1] # ZBC_START THEN ValueError("ZBC start byte invalid")
        ELSE IF packet[9] # ZBC_END THEN ValueError("ZBC end byte invalid")
        ELSE IF size # Len(packet) THEN ValueError("ZBC packet size mismatch")
        ELSE IF has_cs /\ UnpackH(packet[Len(packet) - 1], packet[Len(packet)]) # crc16_ccitt(payload)
        THEN ValueError("ZBC data checksum mismatch")
        ELSE ZbcPacket(flags, size, UnpackH(packet[5], packet[6]), UnpackH(packet[7], packet[8]),
                       payload, has_cs)

\* parse_zbc_packet
parse_zbc_packet(packet) ==
    IF Len(packet) < 10 THEN ValueError("ZBC packet too short")
    ELSE
    LET flags == packet[2]
        size == UnpackH(packet[3], packet[4])
        has_cs == BitAnd[flags, ZBC_FLAG_CS] # 0
        payload == SubSeq(packet, 11, Len(packet) - (IF has_cs THEN 2 ELSE 0))
    IN  IF packet[1] # ZBC_START THEN ValueError("ZBC start byte invalid")
        ELSE IF packet[9] # ZBC_END THEN ValueError("ZBC end byte invalid")
        ELSE IF size # Len(packet) THEN ValueError("ZBC packet size mismatch")
        ELSE IF packet[10] # zbc_header_checksum(SubSeq(packet, 1, 9))
        THEN ValueError("ZBC header checksum mismatch")
        ELSE IF has_cs /\ UnpackH(packet[Len(packet) - 1], packet[Len(packet)]) # crc16_ccitt(payload)
        THEN ValueError("ZBC data checksum mismatch")
        ELSE ZbcPacket(flags, size, UnpackH(packet[5], packet[6]), UnpackH(packet[7], packet[8]),
                       payload, has_cs)

\* The longest payload drawn from PayloadBytes.
MaxPayload == 2

\* The check string "123456789".
CheckString == <<49, 50, 51, 52, 53, 54, 55, 56, 57>>

\* The payloads: every byte string of up to MaxPayload bytes over two bytes
\* (42 00 is the request of a read of command 0x0042), and the check string.
PayloadBytes == {0, 66}
Payloads == UNION {[1..n -> PayloadBytes] : n \in 0..MaxPayload} \cup {CheckString}

\* Flags without CS, with CS, and with every bit set.
FlagValues == {3, 19, 255}

\* Transaction and sequence ids.
IdPairs == {<<1, 0>>, <<48879, 258>>}

Bytes == 0..255

\* The arguments of the calls.
CodecInputs ==
    {[NoCodecCall EXCEPT !.fn = "args", !.flags = flags, !.trx = id[1], !.seq = id[2], !.data = data] :
        flags \in FlagValues, id \in IdPairs, data \in Payloads}

\* build_zbc_packet(flags, trx, seq, data) is called.
BuildCall ==
    /\ zc.fn = "args"
    /\ zc' = [zc EXCEPT !.fn = "build", !.pkt = build_zbc_packet(zc.flags, zc.trx, zc.seq, zc.data)]
    /\ UNCHANGED <<now, inboxVars, routerVars, crashes, outbox, senderVars, backoffVars,
                   wdVars, paramVars, intakeVars, clientVars, procVars>>

\* parse_zbc_packet is called with the packet as it was built.
ParseCall ==
    /\ zc.fn = "build"
    /\ zc' = [zc EXCEPT !.fn = "parse", !.res = parse_zbc_packet(zc.pkt)]
    /\ UNCHANGED <<now, inboxVars, routerVars, crashes, outbox, senderVars, backoffVars,
                   wdVars, paramVars, intakeVars, clientVars, procVars>>

\* parse_zbc_packet is called with the built packet after its byte at
\* position pos has become b on the way.
ParseChangedCall(pos, b) ==
    /\ zc.fn = "build"
    /\ b # zc.pkt[pos]
    /\ zc' = [zc EXCEPT !.fn = "parse", !.pos = pos, !.pkt = [zc.pkt EXCEPT ![pos] = b],
                        !.res = parse_zbc_packet([zc.pkt EXCEPT ![pos] = b])]
    /\ UNCHANGED <<now, inboxVars, routerVars, crashes, outbox, senderVars, backoffVars,
                   wdVars, paramVars, intakeVars, clientVars, procVars>>

\* crc16_ccitt(data) is called.
CrcCall ==
    /\ zc.fn = "args"
    /\ zc' = [zc EXCEPT !.fn = "crc", !.crc = crc16_ccitt(zc.data)]
    /\ UNCHANGED <<now, inboxVars, routerVars, crashes, outbox, senderVars, backoffVars,
                   wdVars, paramVars, intakeVars, clientVars, procVars>>

CodecNext ==
    \/ BuildCall
    \/ ParseCall
    \/ zc.fn = "build" /\ \E pos \in DOMAIN zc.pkt, b \in Bytes : ParseChangedCall(pos, b)
    \/ CrcCall

\* The arguments are drawn at the start.
CodecInit == CoreInit /\ ServerInit /\ zc \in CodecInputs

CodecSpec == CodecInit /\ [][CodecNext]_vars

\* -------------------------------------------------------------- ZBC client
\* The most transactions one client numbers.
MaxTrx == 3

\* The counter values a client starts from: a new client, and one that has
\* made 65534 transactions.
TrxStarts == {0, 65534}

\* The counter values at which a transaction may still start.
TrxWindow == {65534, 65535} \cup 0..(MaxTrx - 1)

\* The rest of the state, which transact does not touch.
ClientFrame ==
    UNCHANGED <<now, inboxVars, routerVars, crashes, outbox, senderVars, backoffVars,
                wdVars, paramVars, intakeVars, codecVars, procVars>>

\* transact: socket.create_connection, a connection of this call alone.
TransactConnect(c) ==
    /\ zpc[c] = "idle"
    /\ ztrx \in TrxWindow
    /\ zpc' = [zpc EXCEPT ![c] = "connected"]
    /\ zio' = [zio EXCEPT ![c] = NoExchange]
    /\ UNCHANGED <<zlock, ztrx, zmy>>
    /\ ClientFrame

\* _next_trx: with self._lock, entered.
NextTrxLock(c) ==
    /\ zpc[c] = "connected"
    /\ zlock = NoCaller
    /\ zlock' = c
    /\ zpc' = [zpc EXCEPT ![c] = "locked"]
    /\ UNCHANGED <<ztrx, zmy, zio>>
    /\ ClientFrame

\* a counter that is not masked to 16 bits
NextTrxNoWrap(c) ==
    /\ zpc[c] = "locked"
    /\ ztrx' = ztrx + 1
    /\ zmy' = [zmy EXCEPT ![c] = ztrx + 1]
    /\ zlock' = NoCaller
    /\ zpc' = [zpc EXCEPT ![c] = "numbered"]
    /\ zio' = zio
    /\ ClientFrame

\* _next_trx: the increment modulo 2^16 and the return, which leaves the lock.
NextTrxReturn(c) ==
    /\ zpc[c] = "locked"
    /\ ztrx' = (ztrx + 1) % 65536
    /\ zmy' = [zmy EXCEPT ![c] = (ztrx + 1) % 65536]
    /\ zlock' = NoCaller
    /\ zpc' = [zpc EXCEPT ![c] = "numbered"]
    /\ zio' = zio
    /\ ClientFrame

\* transact: the request packet is built and sent.
TransactSend(c) ==
    /\ zpc[c] = "numbered"
    /\ zpc' = [zpc EXCEPT ![c] = "sent"]
    /\ UNCHANGED <<zlock, ztrx, zmy, zio>>
    /\ ClientFrame

\* What _read_packet hands to transact: a parsed packet, or the exception of a
\* timeout, a closed socket or a packet parse_zbc_packet rejects.
ReadFails == ValueError("read")

\* The payloads of the packets the printer sends: none, a byte that is no
\* message, and the message 0x500A with the body 42 00.
RespPayloads == {<<>>, <<66>>, <<10, 80, 8, 0, 0, 0, 66, 0>>}

\* Their flags: ACK, NAK, SQS+FIN+CS, and SQS+FIN+ACK+CS.
RespFlags == {4, 8, 19, 23}

\* Their transaction and sequence id: the printer's own, not the request's.
RespId == <<48879, 258>>

RespPackets ==
    {ZbcPacket(flags, 10 + Len(payload) + (IF BitAnd[flags, ZBC_FLAG_CS] # 0 THEN 2 ELSE 0),
               RespId[1], RespId[2], payload, BitAnd[flags, ZBC_FLAG_CS] # 0) :
        flags \in RespFlags, payload \in RespPayloads}

HasFlag(pkt, flag) == BitAnd[pkt.flags, flag] # 0

\* transact: the first packet is read.  With NAK the call raises; ACK without
\* payload announces the response; any other packet is the response.
TransactFirst(c, pkt) ==
    /\ zpc[c] = "sent"
    /\ IF pkt = ReadFails
       THEN /\ zpc' = [zpc EXCEPT ![c] = "idle"]
            /\ zio' = [zio EXCEPT ![c].ret = "raised"]
       ELSE IF HasFlag(pkt, ZBC_FLAG_NAK)
       THEN /\ zpc' = [zpc EXCEPT ![c] = "idle"]
            /\ zio' = [zio EXCEPT ![c].pkts = <<pkt>>, ![c].ret = "raised"]
       ELSE IF HasFlag(pkt, ZBC_FLAG_ACK) /\ pkt.payload = <<>>
       THEN /\ zpc' = [zpc EXCEPT ![c] = "acked"]
            /\ zio' = [zio EXCEPT ![c].pkts = <<pkt>>]
       ELSE /\ zpc' = [zpc EXCEPT ![c] = "answered"]
            /\ zio' = [zio EXCEPT ![c].pkts = <<pkt>>]
    /\ UNCHANGED <<zlock, ztrx, zmy>>
    /\ ClientFrame

\* transact: the packet after the ACK is read; it is the response.
TransactSecond(c, pkt) ==
    /\ zpc[c] = "acked"
    /\ IF pkt = ReadFails
       THEN /\ zpc' = [zpc EXCEPT ![c] = "idle"]
            /\ zio' = [zio EXCEPT ![c].ret = "raised"]
       ELSE IF HasFlag(pkt, ZBC_FLAG_NAK)
       THEN /\ zpc' = [zpc EXCEPT ![c] = "idle"]
            /\ zio' = [zio EXCEPT ![c].pkts = Append(@, pkt), ![c].ret = "raised"]
       ELSE /\ zpc' = [zpc EXCEPT ![c] = "answered"]
            /\ zio' = [zio EXCEPT ![c].pkts = Append(@, pkt)]
    /\ UNCHANGED <<zlock, ztrx, zmy>>
    /\ ClientFrame

\* The response of caller c: the last packet it has read.
Response(c) == zio[c].pkts[Len(zio[c].pkts)]

\* transact: a response with a payload is acknowledged; parse_zbc_message
\* returns the message or raises.
TransactReturn(c) ==
    /\ zpc[c] = "answered"
    /\ zpc' = [zpc EXCEPT ![c] = "idle"]
    /\ zio' = [zio EXCEPT
                 ![c].acks = IF Response(c).payload # <<>>
                             THEN <<build_zbc_ack(Response(c).flags, Response(c).transaction_id,
                                                  Response(c).sequence_id)>>
                             ELSE <<>>,
                 ![c].ret = IF ParseZbcMessageOk(Response(c).payload) THEN "returned" ELSE "raised"]
    /\ UNCHANGED <<zlock, ztrx, zmy>>
    /\ ClientFrame

\* Every caller runs transact at its own pace.
ClientNext ==
    \E c \in Callers :
        \/ TransactConnect(c)
        \/ NextTrxLock(c)
        \/ NextTrxReturn(c)
        \/ TransactSend(c)
        \/ \E pkt \in RespPackets \cup {ReadFails} : TransactFirst(c, pkt)
        \/ \E pkt \in RespPackets \cup {ReadFails} : TransactSecond(c, pkt)
        \/ TransactReturn(c)

\* A client between two transactions, new or after 65534 of them.
ClientInit ==
    /\ CoreInit
    /\ hres = NoAnswer
    /\ zc = NoCodecCall
    /\ ProcInit
    /\ \E trx \in TrxStarts : ClientIdle(trx)

ClientSpec == ClientInit /\ [][ClientNext]_vars

\* ------------------------------------------------------------------ bridge
\* The devices execute is called for: the gateway itself, the PLC, the
\* printer and the laser.
BridgeDevices == {"raspi", "esp-plc", "vj6530", "vj3350"}

\* A parameter of a writable type and one of a device-sourced type, both
\* with metadata, and one without.
BridgeKeys == {<<"TTP", 1>>, <<"LSE", 1>>, <<"TTP", 9>>}

BridgeRequests == {[op |-> "read", value |-> None]}
                    \cup {[op |-> "write", value |-> v] : v \in {Num(1), Num(MaxVal)}}

\* How a live call ends.
BridgeEnds == LiveEnds \cup {"nak", "log", "store"}

\* Every request for every device, simulated (with the parameter store
\* working or failing) or live with each end; only the PLC has a watchdog,
\* and its refusal is modelled for writes.
BridgeNext ==
    \E device \in BridgeDevices, pk \in BridgeKeys, r \in BridgeRequests :
        \/ \E end \in {"value", "store"} : Execute(device, pk, r, TRUE, end)
        \/ \E end \in BridgeEnds :
              /\ device # "raspi"
              /\ end = "down" => device = "esp-plc"
              /\ (end = "nak" /\ device = "esp-plc") => r.op = "write"
              /\ Execute(device, pk, r, FALSE, end)

BridgeSpec == ParamInit /\ [][BridgeNext]_vars

\* ------------------------------------------- service.py: the configuration
\* The most iterations of the sender's inner loop that are followed.
MaxIter == 2

ProcFrame ==
    UNCHANGED <<now, inboxVars, routerVars, crashes, outbox, senderVars, backoffVars,
                wdVars, paramVars, intakeVars, codecVars, clientVars, adm, pth>>

\* sender_loop, line 20-37: Settings.load(cfg_path); DB, Outbox, Watchdog and
\* HttpClient are constructed from it; the inner loop is entered.
SenderLoad ==
    /\ scfg.pc = "load"
    /\ scfg' = [scfg EXCEPT !.loaded = scfg.file, !.pc = "loop"]
    /\ ProcFrame

\* sender_loop, line 39-64: one iteration of the inner "while True", which has
\* no break: the watchdog, the client and the retry arithmetic work with cfg
\* as it was loaded, and the next iteration follows.
SenderIteration ==
    /\ scfg.pc = "loop"
    /\ scfg.iter < MaxIter
    /\ scfg' = [scfg EXCEPT !.used = scfg.loaded, !.iter = @ + 1]
    /\ ProcFrame

\* The configuration file is edited while the service runs.
FileEdit(c) ==
    /\ c # scfg.file
    /\ scfg' = [scfg EXCEPT !.file = c]
    /\ ProcFrame

\* POST /api/config: the file is saved and systemctl restarts the service.
UpdateConfig(c) ==
    /\ scfg' = [file |-> c, loaded |-> NoSettings, used |-> NoSettings, pc |-> "load", iter |-> 0]
    /\ ProcFrame

ConfigNext ==
    \/ SenderLoad
    \/ SenderIteration
    \/ \E c \in SettingsValues : FileEdit(c)
    \/ \E c \in SettingsValues : UpdateConfig(c)

ConfigSpec == Init /\ [][ConfigNext]_vars

\* ------------------------------------------------- webui.py: admin drain
\* GET /api/inbox/next: Inbox.next_pending, one SELECT of the oldest pending
\* row, which it leaves pending; the row goes to the admin, or None.
ApiInboxNext ==
    /\ IF PendingIds = {}
       THEN /\ op' = [name |-> "next", arg |-> 0, ret |-> 0]
            /\ adm' = adm
       ELSE \E i \in OldestPending :
               /\ op' = [name |-> "next", arg |-> 0, ret |-> i]
               /\ adm' = adm \cup {i}
    /\ UNCHANGED <<now, inbox, wlock, wpc, wsel, holders, routerVars, crashes, outbox,
                   senderVars, backoffVars, wdVars, paramVars, intakeVars, codecVars,
                   clientVars, scfg, pth>>

\* POST /api/inbox/{msg_id}/ack: Inbox.ack(msg_id), whatever the row's state.
ApiInboxAck(i) == Ack(i)

\* The intake, a router, and an admin who drains the inbox by hand.
DrainNext ==
    \/ \E k \in Keys, b \in {"nomsg", "request"} : Store(k, b)
    \/ \E w \in Routers : RouterStep(w, {TRUE})
    \/ ApiInboxNext
    \/ \E i \in Ids : ApiInboxAck(i)

DrainSpec == Init /\ [][DrainNext]_vars

\* ------------------------------------------------------------------ intake
\* The most POST /api/inbox requests answered.
MaxPosts == 3

\* cfg.shared_secret: the default "" means that no secret is configured.
Secrets == {"", "s3cret"}

\* The X-Shared-Secret header of a request; NoHeader when it is absent.
SecretHeaders == {NoHeader, "", "s3cret", "wrong"}

\* a gate that only refuses a header that is there and wrong
UnauthorizedIfPresent(secret, header) == secret # "" /\ header # NoHeader /\ header # secret

\* api_inbox: a configured secret and a header that is not equal to it.
Unauthorized(secret, header) == secret # "" /\ header # secret

\* api_inbox.  Settings are loaded for every request.  The gate raises 401
\* before the body is read.  Behind the gate the request is stored under its
\* idempotency key k and the answer carries what Inbox.store returned.  fail:
\* the INSERT raises for another reason than the UNIQUE index (the database
\* stays locked beyond busy_timeout, the disk is full); Inbox.store swallows
\* every exception and returns False.
ApiInbox(secret, header, k, fail) ==
    /\ wlock = NoWorker
    /\ hres.n < MaxPosts
    /\ IF Unauthorized(secret, header)
       THEN /\ hres' = [n |-> hres.n + 1, secret |-> secret, header |-> header, key |-> k,
                        status |-> 401, stored |-> FALSE]
            /\ UNCHANGED <<inbox, holders, op>>
       ELSE IF ~fail /\ RowsWithKey(k) = {}
       THEN /\ inbox' = Append(inbox, [key |-> k, ts |-> now, body |-> "request", state |-> "pending"])
            /\ holders' = Append(holders, {})
            /\ op' = [name |-> "store", arg |-> k, ret |-> 1]
            /\ hres' = [n |-> hres.n + 1, secret |-> secret, header |-> header, key |-> k,
                        status |-> 200, stored |-> TRUE]
       ELSE /\ UNCHANGED <<inbox, holders>>
            /\ op' = [name |-> "store", arg |-> k, ret |-> 0]
            /\ hres' = [n |-> hres.n + 1, secret |-> secret, header |-> header, key |-> k,
                        status |-> 200, stored |-> FALSE]
    /\ UNCHANGED <<now, wlock, wpc, wsel, routerVars, crashes, outbox, senderVars, backoffVars,
                   wdVars, paramVars, codecVars, clientVars, procVars>>

\* The peer posts with any header and key while the configured secret is
\* edited at will, rows are acknowledged and time passes.
IntakeNext ==
    \/ Tick
    \/ \E secret \in Secrets, header \in SecretHeaders, k \in Keys, fail \in BOOLEAN :
         ApiInbox(secret, header, k, fail)
    \/ \E i \in Slots : i \in Ids /\ Ack(i)

IntakeSpec == Init /\ [][IntakeNext]_vars

\* ------------------------------------------------------------------ claims
States == {"pending", "processing", "done"}

\* The step is the end (the COMMIT and return) of w's claim_next_pending.
ClaimReturns(w) == wpc[w] = "selected" /\ wpc'[w] # "selected"

\* The step is a completed Inbox.store call.
StoreReturns == op' # op /\ op'.name = "store"

\* The rows with key k after the step.
RowsWithKeyAfter(k) == {i \in 1..Len(inbox') : inbox'[i].key = k}

C2_ExactlyOnceClaim ==
    [][ /\ \A w \in Workers : (ClaimReturns(w) /\ wsel[w] # 0) =>
             /\ inbox[wsel[w]].state = "pending"
             /\ inbox'[wsel[w]].state = "processing"
             /\ holders'[wsel[w]] = {w}
             /\ \A v \in Workers \ {w} : wsel[v] # wsel[w]
        /\ \A i \in 1..Len(inbox') : Cardinality(holders'[i]) <= 1
      ]_vars

\* C2: two callers hold two different rows, both processing.
C2_Witness ==
    \E i, j \in Ids : /\ i # j
                      /\ holders[i] = {"w1"} /\ holders[j] = {"w2"}
                      /\ inbox[i].state = "processing" /\ inbox[j].state = "processing"

\* C8: FIFO claim.  claim_next_pending returns None exactly when no row is
\* pending (and then changes nothing); otherwise it returns a pending row of
\* least received_ts, and its effect on the table is that this row, and no
\* other, went from pending to processing.
C8_FifoClaim ==
    [][ \A w \in Workers : ClaimReturns(w) =>
          LET r == wsel[w] IN
          /\ (r = 0) <=> ({i \in Ids : inbox[i].state = "pending"} = {})
          /\ r = 0 => inbox' = inbox
          /\ r # 0 => /\ inbox[r].state = "pending"
                      /\ \A j \in Ids : inbox[j].state = "pending" => inbox[r].ts <= inbox[j].ts
                      /\ inbox' = [inbox EXCEPT ![r].state = "processing"]
          /\ op'.name = "claim" /\ op'.ret = r
      ]_vars

\* C8: a claim returned a row while a younger row stays pending.
C8_Witness ==
    /\ op.name = "claim" /\ op.ret # 0
    /\ inbox[op.ret].state = "processing"
    /\ \E j \in Ids : inbox[j].state = "pending" /\ inbox[j].ts > inbox[op.ret].ts

\* C9 as stated: the state is one of the three and moves only along
\* pending -> processing, processing -> done, processing -> pending.
C9_LifecycleAsStated ==
    [][ \A i \in Ids :
          /\ inbox'[i].state \in States
          /\ inbox'[i].state # inbox[i].state =>
               <<inbox[i].state, inbox'[i].state>> \in
                  {<<"pending", "processing">>, <<"processing", "done">>, <<"processing", "pending">>}
      ]_vars

\* C9 amended: the state is always one of pending, processing, done; a new row
\* is pending; a row changes only in its state, and only so: pending ->
\* processing by the claim that returns it, any state -> done by ack(id), any
\* state -> pending by nack(id).
C9_Lifecycle ==
    [][ /\ \A i \in 1..Len(inbox') : inbox'[i].state \in States
        /\ \A i \in 1..Len(inbox') \ Ids : inbox'[i].state = "pending"
        /\ \A i \in Ids :
             /\ inbox'[i] = [inbox[i] EXCEPT !.state = inbox'[i].state]
             /\ inbox'[i].state # inbox[i].state =>
                  \/ /\ inbox[i].state = "pending" /\ inbox'[i].state = "processing"
                     /\ \E w \in Workers : ClaimReturns(w) /\ wsel[w] = i
                  \/ inbox'[i].state = "done" /\ op'.name = "ack" /\ op'.arg = i
                  \/ inbox'[i].state = "pending" /\ op'.name = "nack" /\ op'.arg = i
      ]_vars

\* C9: a nack has put a row back to pending while another row is done.
C9_Witness ==
    /\ op.name = "nack" /\ op.arg \in Ids /\ inbox[op.arg].state = "pending"
    /\ \E j \in Ids : inbox[j].state = "done"

\* The step is the end of a tick_once call of w that had claimed a message.
TickEnds(w) == wmsg[w] # 0 /\ wmsg'[w] = 0 /\ crashes' = crashes

\* C10 as stated: every tick_once that claimed a message ends with the message
\* done and without an exception leaving it.
C10_AlwaysAcksAsStated ==
    [][ \A w \in Routers : TickEnds(w) =>
          inbox'[wmsg[w]].state = "done" /\ rres'.res = "True"
      ]_vars

\* C10 amended: a tick_once that claimed a message and returns has left it
\* done, with or without a line and whether the handler returned or raised; an
\* exception leaves tick_once only when a write of tick_once itself raised (the
\* log write of the no-line branch, the log write of the except clause, the
\* ack); once past the try statement the message is done unless the ack itself
\* raised, and it is left processing only by a failed ack or a failed log write
\* of the no-line branch.
C10_AlwaysAcks ==
    [][ \A w \in Routers : TickEnds(w) =>
          LET m == wmsg[w]
              res == rres'.res
          IN  /\ rres'.w = w
              /\ res \in {"True", "raised_log", "raised_ack"}
              /\ res = "True" => inbox'[m].state = "done"
              /\ (wpc[w] = "finally" /\ res # "raised_ack") => inbox'[m].state = "done"
              /\ inbox'[m].state # "done" =>
                    /\ inbox'[m].state = "processing"
                    /\ \/ res = "raised_ack"
                       \/ res = "raised_log" /\ wpc[w] = "noline"
      ]_vars

\* C10: the handler raised, the log write of the except clause raised too, and
\* the message of the request was acked all the same.
C10_Witness ==
    /\ rres.res = "raised_log"
    /\ op.name = "ack" /\ inbox[op.arg].state = "done" /\ inbox[op.arg].body = "request"

\* C3 as stated: every stored message is eventually done, crashes included.
C3_NoWorkLost ==
    \A k \in Keys :
        [](RowsWithKey(k) # {} => <>(\A i \in RowsWithKey(k) : inbox[i].state = "done"))

\* The step is the sender's handling of a failed attempt (the except clause).
SenderConcludesFailure == spc = "except" /\ spc' = "top" /\ crashes' = crashes

\* C4: at-least-once sending.  A request's outcome leads to the delete exactly
\* when it is a 2xx status and to the except clause otherwise; a job leaves the
\* outbox only by the delete that follows a 2xx answer to the request for
\* this job; the handling of any other outcome leaves the job in the outbox
\* with retry_count one higher and a later next_attempt_ts, all else kept; and
\* nothing else changes a job.
C4_AtLeastOnce ==
    [][ /\ (spc = "send" /\ spc' # "send" /\ crashes' = crashes) =>
             /\ sjob' = sjob /\ outbox' = outbox
             /\ spc' = IF 200 <= sout' /\ sout' < 300 THEN "delete" ELSE "except"
        /\ \A s \in Slots : outbox[s] # NoJob =>
             /\ outbox'[s] = NoJob =>
                  spc = "delete" /\ sjob.slot = s /\ 200 <= sout /\ sout < 300
             /\ (SenderConcludesFailure /\ sjob.slot = s) =>
                  /\ outbox'[s] = [outbox[s] EXCEPT !.rc = @ + 1, !.nts = outbox'[s].nts]
                  /\ outbox'[s].nts > outbox[s].nts
             /\ outbox'[s] # outbox[s] =>
                  sjob.slot = s /\ spc \in {"delete", "except"} /\ crashes' = crashes
      ]_vars

\* C4: a job that failed twice was answered 299 and is about to be deleted.
C4_Witness ==
    /\ spc = "delete" /\ sout = 299
    /\ outbox[sjob.slot].rc = 2

\* C5: eventual delivery.  If from some point on the peer is up for good, every
\* job in the outbox is eventually deleted.
C5_EventualDelivery ==
    <>[](peer = "ok") => \A s \in Slots : [](outbox[s] # NoJob => <>(outbox[s] = NoJob))

\* C6: retry schedule.  The handling of the k-th consecutive failure of a job
\* sets retry_count to k and next_attempt_ts to now + min(cap, base * 2^(k-1)):
\* base, 2 base, 4 base, ...
C6_RetrySchedule ==
    [][ SenderConcludesFailure =>
          LET j == outbox'[sjob.slot]
              k == outbox[sjob.slot].rc + 1
          IN  /\ j.rc = k
              /\ j.nts - now = Min(RetryCap, RetryBase * (2 ^ (k - 1)))
      ]_vars

\* C7 as stated: backoff(n) = min(cap, base * 2^min(n, 10)), backoff(n+1) >=
\* backoff(n), backoff(n) <= cap, and backoff(0) = base.
C7_BackoffAsStated ==
    bOut # -1 =>
      LET e == IF bIn.n <= 10 THEN bIn.n ELSE 10
          x == bIn.base * (2 ^ e)
      IN  /\ bOut = IF bIn.cap <= x THEN bIn.cap ELSE x
          /\ BackoffS(bIn.n + 1, bIn.base, bIn.cap) >= bOut
          /\ bOut <= bIn.cap
          /\ bIn.n = 0 => bOut = bIn.base

\* C7 amended: backoff(n) = min(cap, base * 2^min(n, 10)), backoff(n+1) >=
\* backoff(n), backoff(n) <= cap, and backoff(0) = min(cap, base), which is
\* base exactly when base <= cap.
C7_Backoff ==
    bOut # -1 =>
      LET e == IF bIn.n <= 10 THEN bIn.n ELSE 10
          x == bIn.base * (2 ^ e)
      IN  /\ bOut = IF bIn.cap <= x THEN bIn.cap ELSE x
          /\ BackoffS(bIn.n + 1, bIn.base, bIn.cap) >= bOut
          /\ bOut <= bIn.cap
          /\ bIn.n = 0 => bOut = IF bIn.base <= bIn.cap THEN bIn.base ELSE bIn.cap
          /\ (bIn.n = 0 /\ bIn.base <= bIn.cap) => bOut = bIn.base
          /\ (bIn.n = 0 /\ bIn.base > bIn.cap) => bOut # bIn.base

\* C7: backoff_s was called with a retry count above 10 and returned
\* base * 2^10, below the cap.
C7_Witness ==
    /\ bOut # -1 /\ bIn.n > 10
    /\ bOut = bIn.base * 1024 /\ bOut < bIn.cap

HandlerEnds(w) ==
    /\ wpc[w] = "handle" /\ wpc'[w] # "handle" /\ crashes' = crashes
    /\ ParseLine(ExtractMsgLine(inbox[wmsg[w]].body)) = "parsed"

\* The jobs that carry key k as X-Correlation-Id.
JobsFor(k) == {s \in Slots : outbox[s].corr = k}

\* C12 as stated: every tick_once that claimed a message whose line parses
\* ends with a reply job for this message in the outbox.
C12_ReplyAsStated ==
    [][ \A w \in Routers :
          (TickEnds(w) /\ ParseLine(ExtractMsgLine(inbox[wmsg[w]].body)) = "parsed") =>
             \E s \in Slots : outbox'[s].corr = inbox[wmsg[w]].key
      ]_vars

\* C12 amended: when the handler returns for a line that parses, this step adds
\* exactly one job: a POST to the peer's inbox with the reply body, the
\* message's key as X-Correlation-Id, retry_count 0 and next_attempt_ts 0, and
\* the message is still processing (not acked) at that step; when the handler
\* raises, no job is added; no other step of the router touches the outbox; a
\* message is acked only after its handler ended; no key ever has two jobs.
C12_Reply ==
    [][ /\ \A w \in Routers : HandlerEnds(w) =>
             LET m == inbox[wmsg[w]] IN
             /\ m.state = "processing" /\ inbox' = inbox
             /\ wpc'[w] = "finally" =>
                  \E s \in Slots :
                     /\ outbox[s] = NoJob
                     /\ outbox' = [outbox EXCEPT ![s] = outbox'[s]]
                     /\ outbox'[s].method = "POST" /\ outbox'[s].url = PeerInboxUrl
                     /\ outbox'[s].body = [msg |-> "reply", source |-> "raspi"]
                     /\ outbox'[s].corr = m.key
                     /\ outbox'[s].rc = 0 /\ outbox'[s].nts = 0
             /\ wpc'[w] = "except" => outbox' = outbox
        /\ outbox' # outbox => \E w \in Routers : HandlerEnds(w) /\ wpc'[w] = "finally"
        /\ \A w \in Routers :
             (wmsg[w] # 0 /\ inbox[wmsg[w]].state # "done" /\ inbox'[wmsg[w]].state = "done")
                => wpc[w] \in {"noline_ack", "finally"}
        /\ \A k \in Keys : Cardinality({s \in Slots : outbox'[s].corr = k}) <= 1
      ]_vars

\* C12: the reply to a message is in the outbox and the message is not yet
\* acked.
C12_Witness ==
    \E i \in Ids : /\ inbox[i].state = "processing"
                    /\ JobsFor(inbox[i].key) # {}
                    /\ \E w \in Routers : wpc[w] = "finally" /\ wmsg[w] = i

\* C13: every job in the outbox has an X-Idempotency-Key header, whatever
\* headers and key enqueue was called with and however often the job was
\* rescheduled: the caller's own header if given, else the job's idempotency
\* key, which is the supplied key or a fresh uuid.
C13_IdempotencyHeader ==
    \A s \in Slots : outbox[s] # NoJob =>
        /\ outbox[s].idem # NoHeader
        /\ outbox[s].ikey # NoKey
        /\ outbox[s].idem \in {"h1", outbox[s].ikey}
        /\ outbox[s].ikey \in {"k1", Uuid}

\* C13: a job enqueued without headers and without a key has been
\* rescheduled twice and carries the uuid as X-Idempotency-Key.
C13_Witness ==
    \E s \in Slots : /\ outbox[s] # NoJob
                      /\ outbox[s].rc = 2
                      /\ outbox[s].corr = 0
                      /\ outbox[s].idem = Uuid

\* The sender's call of next_due returns: it goes to sleep on None and to
\* the request with the job.
NextDueReturns == spc = "fetch" /\ spc' # "fetch"

\* C14: next_due returns nothing exactly when no job has next_attempt_ts <= now;
\* otherwise the job it returns is present, has next_attempt_ts <= now and is
\* smallest in the order (next_attempt_ts, retry_count, created_ts) among the
\* jobs with next_attempt_ts <= now; the call leaves the outbox as it is.
C14_NextDue ==
    [][NextDueReturns =>
        LET due == {t \in Slots : outbox[t] # NoJob /\ outbox[t].nts <= now}
            s == sjob'.slot
        IN  /\ outbox' = outbox
            /\ spc' \in {"sleep", "send"}
            /\ spc' = "sleep" <=> due = {}
            /\ spc' = "send" =>
                  /\ s \in due
                  /\ sjob'.rc = outbox[s].rc
                  /\ \A t \in due :
                        \/ outbox[s].nts < outbox[t].nts
                        \/ outbox[s].nts = outbox[t].nts /\ outbox[s].rc < outbox[t].rc
                        \/ /\ outbox[s].nts = outbox[t].nts
                           /\ outbox[s].rc = outbox[t].rc
                           /\ outbox[s].created <= outbox[t].created]_vars

\* C14: next_due has returned a job while an older job, already retried and
\* with a later next_attempt_ts, was due as well.
C14_Witness ==
    /\ spc = "send"
    /\ outbox[sjob.slot] # NoJob
    /\ \E t \in Slots : /\ outbox[t] # NoJob
                        /\ outbox[t].nts <= now
                        /\ outbox[t].created < outbox[sjob.slot].created
                        /\ outbox[t].nts > outbox[sjob.slot].nts
                        /\ outbox[t].rc > outbox[sjob.slot].rc

\* The sender's call of watchdog.tick() returns.
WatchdogReturns == spc = "top" /\ spc' # "top"

\* C15: when watchdog.tick() reports the peer down the sender goes to sleep
\* without fetching a job and without touching the outbox; it is between
\* fetching a job and deleting or rescheduling it only while the watchdog
\* says up; and while the watchdog says down no step removes or changes a
\* job of the outbox or fetches one.
C15_Gated ==
    [][/\ (WatchdogReturns /\ ~wd'.up) =>
             (spc' = "sleep" /\ outbox' = outbox /\ sjob' = sjob)
       /\ spc \in {"fetch", "send", "delete", "except"} => wd.up
       /\ ~wd.up =>
             /\ sjob' = sjob
             /\ \A s \in Slots : outbox[s] # NoJob => outbox'[s] = outbox[s]]_vars

\* C15: the watchdog says down and the sender sleeps while a job is due.
C15_Witness ==
    /\ ~wd.up
    /\ spc = "sleep"
    /\ swake = now + WdInterval
    /\ \E s \in Slots : outbox[s] # NoJob /\ outbox[s].nts <= now

\* The probes of plog's last n entries all failed.
LastFailed(n) == Len(plog) >= n /\ \A i \in (Len(plog) - n + 1)..Len(plog) : ~plog[i]

\* C16: hysteresis.  Starting from up, the watchdog says down exactly when
\* its last WdDownAfter probes all failed (a shorter run of failures keeps it
\* up), and after a successful probe the fail counter is 0 and it says up,
\* whatever the counter was.
C16_Hysteresis ==
    /\ ~wd.up <=> LastFailed(WdDownAfter)
    /\ \A n \in 1..(WdDownAfter - 1) :
          (LastFailed(n) /\ ~LastFailed(n + 1)) => (wd.up /\ wd.fail = n)
    /\ (plog # <<>> /\ plog[Len(plog)]) => (wd.fail = 0 /\ wd.up)
    /\ plog = <<>> => (wd.fail = 0 /\ wd.up)

\* C16: WdDownAfter probes in a row failed, the watchdog was down, and the
\* next probe succeeded and restored up.
C16_Witness ==
    /\ Len(plog) = WdDownAfter + 1
    /\ \A i \in 1..WdDownAfter : ~plog[i]
    /\ plog[WdDownAfter + 1]
    /\ wd.up
    /\ wd.fail = 0
    /\ wret.probed

\* C17: accelerated recovery.  Every tick that probes and leaves the watchdog
\* down, the one that flips it from up to down included, sets the next-check
\* deadline at most 500 ms (QuickRecheck) after the tick; a tick before the
\* deadline does not probe, returns the cached state and leaves the fail
\* counter alone.
C17_AcceleratedRecovery ==
    [][wret' # wret =>
        /\ (wret'.probed /\ ~wd'.up) => wd'.next <= now + QuickRecheck
        /\ now < wd.next => (~wret'.probed /\ wd' = wd /\ wret'.up = wd.up /\ plog' = plog)]_vars

\* A request has been handled: pcall' is the request and its reply, ptab the
\* tables before it and ptab' the tables after it.
Handled(by) == pcall' # pcall /\ pcall'.by \in by

\* C18: read-only enforcement.  A write to a parameter of a read-only type,
\* whatever its pid and value, handled by the router or by the bridge (for a
\* simulated or a live device), is answered {pkey}=NAK_ReadOnly, leaves the
\* tables as they are and sends nothing to a device.
C18_ReadOnlyWrites ==
    [][(/\ Handled({"router", "bridge"})
        /\ pcall'.op = "write"
        /\ pcall'.pkey[1] \in READONLY_TYPES) =>
            /\ pcall'.resp = ReplyNak("NAK_ReadOnly")
            /\ RowOf(ptab', pcall'.pkey).val = GetMeta(pcall'.pkey).val
            /\ RowOf(ptab', pcall'.pkey).def = GetMeta(pcall'.pkey).def
            /\ ptab' = ptab
            /\ ~pcall'.dev]_vars

\* C18: the bridge has answered a write of a value within the bounds to TTE1,
\* whose metadata says R/W, for a live device.
C18_Witness ==
    /\ pcall.by = "bridge"
    /\ pcall.op = "write"
    /\ pcall.pkey = <<"TTE", 1>>
    /\ pcall.value = Num(1)
    /\ ~pcall.sim
    /\ GetMeta(pcall.pkey).rw = "R/W"
    /\ pcall.resp = ReplyNak("NAK_ReadOnly")

\* C19: simulated read.  A read handled by the router, or by the bridge for
\* raspi or a device in simulation, of a parameter of any type that has
\* metadata is answered {pkey}={effective}: the stored value, else the
\* default, else 0; and no read is answered NAK_ReadOnly.
C19_SimulatedRead ==
    [][(/\ Handled({"router", "bridge"})
        /\ pcall'.sim
        /\ pcall'.op = "read") =>
            /\ GetMeta(pcall'.pkey).known => pcall'.resp = ReplyValue(GetEffectiveValue(pcall'.pkey))
            /\ pcall'.resp # ReplyNak("NAK_ReadOnly")]_vars

\* set_value(pk, v) was called with a number v for a parameter with a bound.
RangeCase(pk) ==
    /\ Handled({"store"})
    /\ pcall'.pkey = pk
    /\ pcall'.value.k = "num"
    /\ GetMeta(pk).known
    /\ GetMeta(pk).min.has \/ GetMeta(pk).max.has

\* v < min or v > max, for the bounds that are present.
OutOfRange(pk, v) ==
    \/ GetMeta(pk).min.has /\ v < GetMeta(pk).min.v
    \/ GetMeta(pk).max.has /\ v > GetMeta(pk).max.v

\* C20 as stated: for a parameter with a bound, set_value with a number v is
\* rejected with NAK_OutOfRange exactly when v < min or v > max, v = min and
\* v = max are accepted, and a rejected write changes neither the value nor
\* the default.
C20_RangeAsStated ==
    [][\A pk \in PKeys : RangeCase(pk) =>
          LET v == pcall'.value.n IN
          /\ pcall'.resp = ReplyNak("NAK_OutOfRange") <=> OutOfRange(pk, v)
          /\ ((GetMeta(pk).min.has /\ v = GetMeta(pk).min.v) \/ (GetMeta(pk).max.has /\ v = GetMeta(pk).max.v))
                /\ ~OutOfRange(pk, v) => pcall'.resp = ReplyAck(pcall'.value)
          /\ pcall'.resp.k = "nak" => ptab' = ptab]_vars

\* C20 amended: the same for a parameter whose rw flag is not R; and when the
\* flag is R the write is rejected with NAK_ReadOnly whatever v is, again
\* without changing anything.  An accepted write stores v as value and as
\* default.
C20_Range ==
    [][\A pk \in PKeys : RangeCase(pk) =>
          LET v == pcall'.value.n IN
          /\ GetMeta(pk).rw # "R" =>
                /\ pcall'.resp = ReplyNak("NAK_OutOfRange") <=> OutOfRange(pk, v)
                /\ ~OutOfRange(pk, v) =>
                      /\ pcall'.resp = ReplyAck(pcall'.value)
                      /\ RowOf(ptab', pk).val = pcall'.value
                      /\ RowOf(ptab', pk).def = pcall'.value
          /\ GetMeta(pk).rw = "R" => pcall'.resp = ReplyNak("NAK_ReadOnly")
          /\ pcall'.resp.k = "nak" => ptab' = ptab]_vars

\* C20: set_value was called with max + 1 for a writable parameter with a
\* maximum, was rejected with NAK_OutOfRange, and nothing is stored.
C20_Witness ==
    /\ pcall.by = "store"
    /\ GetMeta(pcall.pkey).known
    /\ GetMeta(pcall.pkey).rw = "R/W"
    /\ GetMeta(pcall.pkey).max.has
    /\ pcall.value = Num(GetMeta(pcall.pkey).max.v + 1)
    /\ pcall.resp = ReplyNak("NAK_OutOfRange")
    /\ GetMeta(pcall.pkey).val = None

\* get_effective_value(pk) in tables t.
EffectiveIn(t, pk) ==
    IF RowOf(t, pk).val # None THEN RowOf(t, pk).val
    ELSE IF RowOf(t, pk).def # None THEN RowOf(t, pk).def
    ELSE Num(0)

\* C21: effect of set_value(pk, v).  Without metadata it returns
\* NAK_UnknownParam, with rw = R it returns NAK_ReadOnly, and both change
\* nothing; when it succeeds the value and the default of pk are v, the
\* effective value is v, the bounds and the rw flag of pk are as before and
\* the rows of all other parameters are as before.
C21_SetValueEffect ==
    [][Handled({"store"}) =>
        LET pk == pcall'.pkey
            v == pcall'.value
        IN  /\ ~GetMeta(pk).known =>
                  (pcall'.resp = ReplyNak("NAK_UnknownParam") /\ ptab' = ptab)
            /\ (GetMeta(pk).known /\ GetMeta(pk).rw = "R") =>
                  (pcall'.resp = ReplyNak("NAK_ReadOnly") /\ ptab' = ptab)
            /\ pcall'.resp.k \in {"ack", "nak"}
            /\ pcall'.resp.k = "ack" =>
                  /\ pcall'.resp = ReplyAck(v)
                  /\ RowOf(ptab', pk).val = v
                  /\ RowOf(ptab', pk).def = v
                  /\ EffectiveIn(ptab', pk) = v
                  /\ RowOf(ptab', pk).min = GetMeta(pk).min
                  /\ RowOf(ptab', pk).max = GetMeta(pk).max
                  /\ RowOf(ptab', pk).rw = GetMeta(pk).rw
                  /\ DOMAIN ptab' = DOMAIN ptab
                  /\ \A q \in PKeys \ {pk} : RowOf(ptab', q) = RowOf(ptab, q)]_vars

\* C21: set_value has accepted the value 1 for TTP1, whose default was
\* another one: value and default are 1 now.
C21_Witness ==
    /\ pcall.by = "store"
    /\ pcall.pkey = <<"TTP", 1>>
    /\ pcall.resp = ReplyAck(Num(1))
    /\ GetMeta(pcall.pkey).val = Num(1)
    /\ GetMeta(pcall.pkey).def = Num(1)

\* C22: apply_device_value(pk, v) is set_value(pk, v) without the rw check.
\* It rejects a pkey without metadata with NAK_UnknownParam and a number
\* outside the bounds with NAK_OutOfRange, both without a change, and
\* otherwise accepts, whatever rw is, and leaves the tables as set_value
\* does: value and default of pk are v.
C22_ApplyLikeSet ==
    [][Handled({"device"}) =>
        LET pk == pcall'.pkey
            v == pcall'.value
            out == v.k = "num" /\ OutOfRange(pk, v.n)
        IN  /\ ~GetMeta(pk).known =>
                  (pcall'.resp = ReplyNak("NAK_UnknownParam") /\ ptab' = ptab)
            /\ (GetMeta(pk).known /\ out) =>
                  (pcall'.resp = ReplyNak("NAK_OutOfRange") /\ ptab' = ptab)
            /\ (GetMeta(pk).known /\ ~out) =>
                  /\ pcall'.resp = ReplyAck(v)
                  /\ ptab' = [ptab EXCEPT ![pk].val = v, ![pk].def = v]]_vars

\* The three conditions on a row of params: min <= max when both are present,
\* a numeric default within the bounds that are present, rw canonical.
MinMaxOk(r) == (r.min.has /\ r.max.has) => r.min.v <= r.max.v
DefaultOk(r) ==
    r.def.k = "num" => /\ r.min.has => r.min.v <= r.def.n
                       /\ r.max.has => r.def.n <= r.max.v
RwOk(r) == r.rw \in {"R", "W", "R/W", ""}

\* C23: metadata invariants.  Starting from metadata with min <= max, the
\* numeric default within the bounds and a canonical rw, every sequence of
\* update_meta, set_value and apply_device_value calls keeps the three
\* conditions; an update_meta whose arguments would break one is rejected,
\* with NAK_BadRW, NAK_MinGreaterThanMax or NAK_DefaultOutOfRange, and a
\* rejected update_meta changes nothing.
C23_MetaInvariants ==
    /\ [](\A pk \in DOMAIN ptab : MinMaxOk(ptab[pk]) /\ DefaultOk(ptab[pk]) /\ RwOk(ptab[pk]))
    /\ [][Handled({"meta"}) =>
            LET pk == pcall'.pkey
                a == pcall'.args
                m == GetMeta(pk)
                new == [min |-> IF a.min.has THEN a.min ELSE m.min,
                        max |-> IF a.max.has THEN a.max ELSE m.max,
                        def |-> IF a.def # None THEN a.def ELSE m.def]
                badRw == a.rw \notin {"<none>", "R", "W", "R/W", "RW", "R_W", "rw", "r", "w", "r/w", "r_w", ""}
            IN  /\ pcall'.resp.k = "nak" => ptab' = ptab
                /\ m.known =>
                      /\ badRw => pcall'.resp = ReplyNak("NAK_BadRW")
                      /\ (~badRw /\ ~MinMaxOk(new)) => pcall'.resp = ReplyNak("NAK_MinGreaterThanMax")
                      /\ (~badRw /\ MinMaxOk(new) /\ ~DefaultOk(new)) =>
                            pcall'.resp = ReplyNak("NAK_DefaultOutOfRange")
                      /\ (~badRw /\ MinMaxOk(new) /\ DefaultOk(new)) => pcall'.resp.k = "ack"]_vars

\* C23: update_meta was asked for a bound that leaves the numeric default
\* outside, and was rejected with NAK_DefaultOutOfRange.
C23_Witness ==
    /\ pcall.by = "meta"
    /\ pcall.resp = ReplyNak("NAK_DefaultOutOfRange")
    /\ GetMeta(pcall.pkey).def.k = "num"
    /\ pcall.args.min.has \/ pcall.args.max.has

\* The step is an answer to a POST /api/inbox.
Answered == hres'.n = hres.n + 1

\* C24: shared-secret gate.  With a secret configured, every request whose
\* header is absent or differs from the secret is answered with 401 and leaves
\* the inbox as it was; every other request, and every request while no secret
\* is configured, whatever its header, is answered with 200.
C24_SharedSecretGate ==
    [][Answered =>
         /\ (hres'.secret # "" /\ hres'.header # hres'.secret)
               => hres'.status = 401 /\ inbox' = inbox /\ ~hres'.stored
         /\ (hres'.secret = "" \/ hres'.header = hres'.secret) => hres'.status = 200
      ]_vars

\* C24: a request without the header was refused while a secret was configured,
\* after an earlier request had stored a row.
C24_Witness ==
    /\ hres.status = 401 /\ hres.secret = "s3cret" /\ hres.header = NoHeader
    /\ Len(inbox) = 1

\* C25: result of store.  Every store behind the gate returns true exactly when
\* it inserted a pending row with its key, and false exactly when a row with
\* its key was there before the call.
C25_StoreResult ==
    [][(Answered /\ hres'.status = 200) =>
         /\ hres'.stored <=> /\ Len(inbox') = Len(inbox) + 1
                             /\ inbox'[Len(inbox')].key = hres'.key
                             /\ inbox'[Len(inbox')].state = "pending"
         /\ ~hres'.stored <=> RowsWithKey(hres'.key) # {}
      ]_vars

\* C26: device-bridge errors are values.  Every execute, whatever its input
\* and whatever fails, ends with a reply line and never with an exception; a
\* live exchange whose device client raises ends with NAK_DeviceComm.
C26_ErrorsAreValues ==
    [][Handled({"bridge"}) =>
         /\ pcall'.resp.k \in {"value", "ack", "nak"}
         /\ (pcall'.dev /\ pcall'.end \in {"comm", "log"}) => pcall'.resp = ReplyNak("NAK_DeviceComm")
      ]_vars

\* C27: live Ultimate write.  A write of a laser parameter with the laser not
\* in simulation sends the set command to the device; the reply is the ACK
\* of the value when the device acknowledges and NAK_Ultimate_<code> when it
\* refuses.
C27_UltimateWrite ==
    [][(/\ Handled({"bridge"})
        /\ pcall'.device = "vj3350" /\ ~pcall'.sim
        /\ ChannelFor(pcall'.pkey[1]) = "vj3350" /\ pcall'.op = "write"
        /\ pcall'.end \in {"value", "nak"})
       => /\ pcall'.dev
          /\ pcall'.end = "value" => pcall'.resp = ReplyAck(pcall'.value)
          /\ pcall'.end = "nak" => pcall'.resp = ReplyNak("NAK_Ultimate")
      ]_vars

\* The flags of a packet built from flags: CS follows the payload.
BuiltFlags(flags, payload) ==
    IF payload # <<>> THEN BitOr(flags, ZBC_FLAG_CS) ELSE flags - BitAnd[flags, ZBC_FLAG_CS]

\* C28: ZBC packet round trip.  Parsing a built packet yields the transaction
\* id, the sequence id and the payload it was built from, the size of the
\* packet, and the flags with CS set when the payload is non-empty and with CS
\* cleared when it is empty; has_checksum tells which; a built packet with any
\* one byte changed to any other value is rejected.
C28_RoundTrip ==
    zc.fn = "parse" =>
        IF zc.pos = 0
        THEN /\ zc.res.err = ""
             /\ zc.res.transaction_id = zc.trx
             /\ zc.res.sequence_id = zc.seq
             /\ zc.res.payload = zc.data
             /\ zc.res.size = Len(zc.pkt)
             /\ zc.res.flags = BuiltFlags(zc.flags, zc.data)
             /\ zc.res.has_checksum = (zc.data # <<>>)
        ELSE zc.res.err # ""

\* C28: a packet built with CS in its flags and no payload has been parsed.
C28_Witness ==
    /\ zc.fn = "parse" /\ zc.pos = 0 /\ zc.res.err = ""
    /\ zc.data = <<>>
    /\ BitAnd[zc.flags, ZBC_FLAG_CS] # 0

\* C28 as stated: the parsed flags are the input flags with CS added when the
\* payload is non-empty and the input flags themselves otherwise.
C28_RoundTripAsStated ==
    zc.fn = "parse" =>
        IF zc.pos = 0
        THEN /\ zc.res.err = ""
             /\ zc.res.transaction_id = zc.trx
             /\ zc.res.sequence_id = zc.seq
             /\ zc.res.payload = zc.data
             /\ zc.res.flags = (IF zc.data # <<>> THEN BitOr(zc.flags, ZBC_FLAG_CS) ELSE zc.flags)
        ELSE zc.res.err # ""

\* C29: CRC check value.  crc16_ccitt, with the register starting at 0, returns
\* 0x31C3 for "123456789", and 0 for the empty string.
C29_CheckValue ==
    zc.fn = "crc" =>
        /\ zc.data = CheckString => zc.crc = 12739
        /\ zc.data = <<>> => zc.crc = 0

\* C29: the checksum of the check string has been computed.
C29_Witness == zc.fn = "crc" /\ zc.data = CheckString /\ zc.crc \in 0..65535

\* C29 as stated: crc16_ccitt returns 0x29B1 for "123456789".
C29_CheckValueAsStated == (zc.fn = "crc" /\ zc.data = CheckString) => zc.crc = 10673

\* The callers between the sending of their request and their last response.
InExchange == {c \in Callers : zpc[c] \in {"sent", "acked"}}

\* C30: ZBC calls are serialized per client.  At any time at most one caller
\* is between the sending of its request and its last response.
C30_Serialized == Cardinality(InExchange) <= 1

\* The callers whose transaction has its id.
Numbered == {c \in Callers : zpc[c] \in {"numbered", "sent", "acked", "answered"}}

\* C31: ZBC transaction ids.  Every _next_trx hands out the successor modulo
\* 2^16 of the id handed out before it (1 first, 0 after 65535), the counter
\* and every id fit in 16 bits, and the transactions under way at the same
\* time have different ids.
C31_TransactionIds ==
    /\ [](/\ ztrx \in 0..65535
          /\ \A c \in Callers : zmy[c] \in 0..65535
          /\ \A c, d \in Numbered : c # d => zmy[c] # zmy[d])
    /\ [][\A c \in Callers :
            (zpc[c] = "locked" /\ zpc'[c] = "numbered") =>
               /\ zmy'[c] = (IF ztrx = 65535 THEN 0 ELSE ztrx + 1)
               /\ ztrx' = zmy'[c]
               /\ \A d \in Callers \ {c} : zmy'[d] = zmy[d]
         ]_vars

\* C31: the id after 65535 has been handed out while the other caller's
\* transaction with id 65535 is under way.
C31_Witness ==
    \E c, d \in Numbered : zmy[c] = 0 /\ zmy[d] = 65535 /\ ztrx = 0

\* The packets caller c has read and the verdict of its transact.
Announces(pkt) == HasFlag(pkt, ZBC_FLAG_ACK) /\ pkt.payload = <<>> /\ ~HasFlag(pkt, ZBC_FLAG_NAK)

\* C32: transact reads one packet after the request, and a second one exactly
\* when the first carries ACK and no payload; a packet with NAK ends the call
\* with an exception, no ACK sent and no parameter changed; on return, an
\* answer with a payload has been acknowledged by exactly one packet that
\* carries the answer's transaction and sequence id, ACK set, NAK and CS
\* cleared and no payload, and an answer without payload by none.
C32_ResponseHandling ==
    /\ [](\A c \in Callers :
            LET io == zio[c]
            IN /\ Len(io.pkts) <= 2
               /\ (Len(io.pkts) = 2 => Announces(io.pkts[1]))
               /\ (zpc[c] = "acked" <=> (Len(io.pkts) = 1 /\ Announces(io.pkts[1]) /\ io.ret = "none"))
               /\ (zpc[c] = "answered" =>
                     /\ Len(io.pkts) >= 1
                     /\ ~HasFlag(Response(c), ZBC_FLAG_NAK)
                     /\ (Len(io.pkts) = 1 => ~Announces(io.pkts[1]))
                     /\ io.acks = <<>>)
               /\ (\E i \in DOMAIN io.pkts : HasFlag(io.pkts[i], ZBC_FLAG_NAK)) =>
                     (zpc[c] = "idle" /\ io.ret = "raised" /\ io.acks = <<>>))
    /\ [][\A c \in Callers :
            /\ ptab' = ptab
            /\ (zpc[c] = "answered" /\ zpc'[c] = "idle") =>
                 LET answer == Response(c)
                     acks == zio'[c].acks
                 IN /\ zio'[c].pkts = zio[c].pkts
                    /\ IF answer.payload = <<>> THEN acks = <<>>
                       ELSE /\ Len(acks) = 1
                            /\ LET ack == parse_zbc_packet(acks[1])
                               IN /\ ack.err = ""
                                  /\ ack.transaction_id = answer.transaction_id
                                  /\ ack.sequence_id = answer.sequence_id
                                  /\ BitAnd[ack.flags, ZBC_FLAG_ACK] # 0
                                  /\ BitAnd[ack.flags, ZBC_FLAG_NAK] = 0
                                  /\ BitAnd[ack.flags, ZBC_FLAG_CS] = 0
                                  /\ ack.payload = <<>>
            /\ (zpc[c] # "answered" => zio'[c].acks = <<>> \/ zio'[c].acks = zio[c].acks)]_vars

\* A caller whose first packet was a bare ACK has returned the message of the
\* second packet, which came with CS set, and has acknowledged it.
C32_Witness ==
    \E c \in Callers :
        /\ zpc[c] = "idle" /\ zio[c].ret = "returned"
        /\ Len(zio[c].pkts) = 2 /\ Len(zio[c].acks) = 1
        /\ HasFlag(zio[c].pkts[2], ZBC_FLAG_CS)
        /\ HasFlag(zio[c].pkts[2], ZBC_FLAG_ACK)

\* A write to a device that is not simulated, with the database answering.
LiveWrite ==
    /\ Handled({"bridge"})
    /\ pcall'.op = "write" /\ ~pcall'.sim
    /\ pcall'.end # "store"

C34_ReloadedEveryIteration ==
    [][scfg'.iter = scfg.iter + 1 => scfg'.used = scfg.file]_vars

\* The sender fetches the job in slot s for an attempt.
Fetches(s) == spc = "fetch" /\ spc' = "send" /\ sjob'.slot = s

\* C35: FIFO sending without failures.  While no attempt fails and the peer
\* stays up, a job is attempted before every job that was enqueued at a later
\* time and after every job that was enqueued at an earlier time; jobs whose
\* created_ts are equal are attempted in either order.
C35_FifoByCreated ==
    [][\A s \in Slots : Fetches(s) =>
          \A t \in Present : outbox[s].created <= outbox[t].created]_vars

\* The earlier of two jobs is being sent while the later one waits.
C35_Witness ==
    /\ spc = "send"
    /\ \E t \in Present : outbox[t].created > outbox[sjob.slot].created
    /\ \A s \in Present : outbox[s].rc = 0

\* C35 as stated: while no attempt fails and the peer stays up, the job that
\* is attempted is the one that was enqueued first of all jobs in the outbox.
C35_FifoAsStated ==
    [][\A s \in Slots : Fetches(s) =>
          \A t \in Present : outbox[s].corr <= outbox[t].corr]_vars

\* The sender has a job in its hands: between next_due and delete or reschedule.
Attempting == spc \in {"send", "delete", "except"}

\* C36: retries are identical requests.  The job the sender makes its request
\* from is the row as it is in the outbox; a reschedule changes retry_count
\* and next_attempt_ts of its job and nothing else of any job; and as long as
\* a job is in the outbox, whatever happens (attempts, reschedules, other jobs
\* coming and going, a crash after the response), its method, URL, body,
\* X-Correlation-Id and X-Idempotency-Key stay what they were.
C36_IdenticalRetries ==
    /\ [](Attempting => /\ outbox[sjob.slot] # NoJob
                        /\ sjob.req = RequestOf(outbox[sjob.slot])
                        /\ sjob.req.idem # NoHeader)
    /\ [][\A s \in Slots : (outbox[s] # NoJob /\ outbox'[s] # NoJob) =>
             /\ RequestOf(outbox'[s]) = RequestOf(outbox[s])
             /\ outbox'[s].created = outbox[s].created
             /\ outbox'[s].ikey = outbox[s].ikey]_vars
    /\ [][(spc = "except" /\ spc' = "top") =>
             \A s \in Slots :
                outbox'[s] = IF s = sjob.slot
                             THEN [outbox[s] EXCEPT !.rc = outbox'[s].rc, !.nts = outbox'[s].nts]
                             ELSE outbox[s]]_vars

\* After a crash that left it in the outbox, a job that has failed once is
\* sent again, answered with 2xx and about to be deleted, while another job
\* with other headers waits.
C36_Witness ==
    /\ crashes = 1
    /\ spc = "delete"
    /\ outbox[sjob.slot].rc = 1
    /\ sjob.req.idem = Uuid
    /\ \E t \in Slots : outbox[t] # NoJob /\ outbox[t].idem = "h1"

\* The job in slot s is in the outbox with next_attempt_ts <= now.
DueJob(s) == outbox[s] # NoJob /\ outbox[s].nts <= now

\* The sender makes its request for the job in slot s.
AttemptOf(s) == spc = "send" /\ sjob.slot = s

\* C37: no head-of-line blocking.  With the peer up from some point on, every
\* job that is due, be it a job that has failed and was rescheduled or any
\* other, is eventually attempted (or has left the outbox): neither the
\* failing job nor the jobs next to it wait for ever.
C37_NoHeadOfLineBlocking ==
    <>[](peer = "ok") =>
        \A s \in Slots : [](DueJob(s) => <>(AttemptOf(s) \/ outbox[s] = NoJob))

\* C38: admin drain and router do not process the same message.  No router
\* holds a message that GET /api/inbox/next has returned to the admin, and a
\* message a router holds in processing becomes done only by the ack of that
\* router, never by POST /api/inbox/{id}/ack.
C38_AdminAndRouterApart ==
    /\ [](\A i \in adm : \A w \in Routers : wmsg[w] # i)
    /\ [][\A i \in Ids : \A w \in Routers :
            (wmsg[w] = i /\ inbox[i].state = "processing" /\ inbox'[i].state = "done")
               => wmsg'[w] = 0]_vars

\* Both threads have returned from their calls.
Finished == \A t \in Threads : pth[t].pc = "done"

\* C39: concurrent writes leave current value and default consistent.  When
\* both calls have returned and a set_value was accepted, the value and the
\* default of the parameter are equal; and every value set_value stores is
\* allowed by the rw flag and the bounds the parameter has when it is stored.
C39_ConcurrentWrites ==
    /\ []((Finished /\ \E t \in Threads : pth[t].call = "set" /\ pth[t].ret = "OK")
             => ptab[RaceKey].val = ptab[RaceKey].def)
    /\ [][\A t \in Threads : (pth[t].pc = "insert" /\ pth'[t].pc = "update")
             => SetValueResult(RaceKey, pth[t].value) = "OK"]_vars

\* The effective value of parameter pk in tables t, when pk has both bounds
\* and the value is a number, lies within the bounds.
EffectiveInRange(t, pk) ==
    (RowOf(t, pk).min.has /\ RowOf(t, pk).max.has /\ EffectiveIn(t, pk).k = "num") =>
        /\ RowOf(t, pk).min.v <= EffectiveIn(t, pk).n
        /\ EffectiveIn(t, pk).n <= RowOf(t, pk).max.v

\* C40: the effective value stays in range.  A call of set_value,
\* apply_device_value or update_meta for a parameter whose numeric effective
\* value is inside its bounds, if it has both, ends with the numeric
\* effective value inside the bounds the parameter has then, if it has both.
C40_EffectiveStaysInRange ==
    [][(Handled({"store", "device", "meta"}) /\ EffectiveInRange(ptab, pcall'.pkey))
          => EffectiveInRange(ptab', pcall'.pkey)]_vars

====
